---- MODULE Spec2Model ----
(***************************************************************************)
(* Cafe roster scheduler: the pandas-driven greedy engine                  *)
(* (scheduler/engine_baseline.py), its constraint and scoring helpers, and *)
(* the role orchestrator (scheduler/engine/orchestrator.py).               *)
(*                                                                         *)
(* Units.  Times of day are half-hours after midnight (07:00 is 14, 13:30  *)
(* is 27); durations and the hours ledger are half-hours; weights and      *)
(* penalty rates are quarters (0.25 -> 1, 0.5 -> 2, 1.0 -> 4).  A date d   *)
(* is 2025-09-d (1 = Monday).                                              *)
(* An optional value is a sequence of length 0 (absent) or 1 (present).    *)
(***************************************************************************)
EXTENDS Integers, Sequences, FiniteSets, TLC

\* ------------------------------------------------------------------------
\* Bounds of the explored inputs
\* ------------------------------------------------------------------------
MaxEmployees == 2
MaxReq == 2
MaxShiftsPerDay == 1

\* ------------------------------------------------------------------------
\* Generic helpers
\* ------------------------------------------------------------------------
Max2(a, b) == IF a >= b THEN a ELSE b

Range(s) == {s[i] : i \in 1..Len(s)}

RECURSIVE SumSeq(_)
SumSeq(s) == IF s = <<>> THEN 0 ELSE Head(s) + SumSeq(Tail(s))

\* ascending sort of a finite set of integers
RECURSIVE SortInts(_)
SortInts(S) ==
    IF S = {} THEN <<>>
    ELSE LET m == CHOOSE x \in S : \A y \in S : x <= y
         IN  <<m>> \o SortInts(S \ {m})

\* str.upper() on the role strings that occur
Upper(s) ==
    CASE s = "barista" -> "BARISTA"
      [] s = "manager" -> "MANAGER"
      [] s = "waiter" -> "WAITER"
      [] s = "sandwich" -> "SANDWICH"
      [] s = "chef" -> "CHEF"
      [] OTHER -> s

\* pd.Timestamp(d).day_name()
DayName(d) ==
    LET names == <<"Monday", "Tuesday", "Wednesday", "Thursday", "Friday",
                   "Saturday", "Sunday">>
    IN  names[((d - 1) % 7) + 1]

\* ------------------------------------------------------------------------
\* scheduler/constraints.py
\* ------------------------------------------------------------------------
ROLES == {"MANAGER", "BARISTA", "WAITER", "SANDWICH"}

\* is_role_eligible comparing the primary role as written
is_role_eligible_NoUpper(primary_role, required_role) ==
    LET p == primary_role
        r == Upper(required_role)
    IN  IF r \notin ROLES THEN FALSE
        ELSE IF p = "SANDWICH" THEN r = "SANDWICH"
        ELSE IF p = "BARISTA" THEN r = "BARISTA"
        ELSE IF p = "WAITER" THEN r = "WAITER"
        ELSE IF p = "MANAGER" THEN r = "MANAGER"
        ELSE FALSE

is_role_eligible(primary_role, required_role) ==
    LET p == Upper(primary_role)
        r == Upper(required_role)
    IN  IF r \notin ROLES THEN FALSE
        ELSE IF p = "SANDWICH" THEN r = "SANDWICH"
        ELSE IF p = "BARISTA" THEN r = "BARISTA"
        ELSE IF p = "WAITER" THEN r = "WAITER"
        ELSE IF p = "MANAGER" THEN r = "MANAGER"
        ELSE FALSE

\* ------------------------------------------------------------------------
\* scheduler/services/constraints.py
\* ------------------------------------------------------------------------
\* hours_policy.get(role.upper(), {}).get('hard_cap', global_hard_cap)
PolicyCapOr(hours_policy, role, default) ==
    IF Upper(role) \in DOMAIN hours_policy /\ hours_policy[Upper(role)] # <<>>
    THEN hours_policy[Upper(role)][1].hard_cap
    ELSE default

can_assign_employee(employee, role, shift_hours, today, hours, hours_policy, global_hard_cap) ==
    LET emp_id == employee.employee_id
        current_hours == IF emp_id \in DOMAIN hours THEN hours[emp_id] ELSE 0
        post_assignment_hours == current_hours + shift_hours
    IN  IF Upper(employee.primary_role) # Upper(role) THEN FALSE
        ELSE IF emp_id \in today THEN FALSE
        ELSE IF post_assignment_hours
                    > PolicyCapOr(hours_policy, role, global_hard_cap) THEN FALSE
        ELSE IF post_assignment_hours > global_hard_cap THEN FALSE
        ELSE TRUE

\* ------------------------------------------------------------------------
\* scheduler/data_io.py
\* ------------------------------------------------------------------------
\* local_day_bounds: naive local datetimes (date, half-hour of the day)
local_day_bounds(day, start_hm, end_hm) ==
    <<[date |-> day, min |-> start_hm], [date |-> day, min |-> end_hm]>>

\* the default block of 8 hours taken for the length of every window
Elapsed_BlockHours(sdt, edt) == 16

\* (edt - sdt).total_seconds(), in half-hours
Elapsed(sdt, edt) == (edt.date - sdt.date) * 48 + (edt.min - sdt.min)

\* UTC offset of the configured timezone (Australia/Sydney in September:
\* +10:00), in half-hours
TzOffset == 20

\* to_iso_with_tz: the local time stamped with the zone's offset
to_iso_with_tz(dt) == [date |-> dt.date, min |-> dt.min, off |-> TzOffset]

\* pd.to_datetime(iso).tz_convert(None): half-hours on the UTC time line
ToUtc(iso) == iso.date * 48 + iso.min - iso.off

\* ------------------------------------------------------------------------
\* scheduler/scoring.py
\* Fitness and penalties are kept as integers: a fitness is 4 times the
\* float, an hours penalty 8 times.  A score is <<R, Q>> and stands for
\* (R - Q / sqrt(V)) / 8, where V is n^2 times the variance of the cohort's
\* hours, so that scores are compared exactly without the square root.
\* ------------------------------------------------------------------------
role_fitness(row, role, w) ==
    LET r == Upper(role)
    IN  IF r = "MANAGER" THEN w.manager_weight
        ELSE IF r = "BARISTA" THEN
            w.coffee * row.skill_coffee + w.speed * row.skill_speed
              + w.customer_service * row.customer_service_rating
        ELSE IF r = "WAITER" THEN
            w.customer_service * row.customer_service_rating
              + w.speed * row.skill_speed
        ELSE IF r = "SANDWICH" THEN w.sandwich * row.skill_sandwich
        ELSE 0

\* twice the median of the values of a non-empty hours series
Median2(hours) ==
    LET ids == DOMAIN hours
        n == Cardinality(ids)
        \* rank of id i in the sorted order (ties broken by id)
        Rank(i) == Cardinality({j \in ids : hours[j] < hours[i]
                                   \/ (hours[j] = hours[i] /\ j < i)}) + 1
        At(k) == hours[CHOOSE i \in ids : Rank(i) = k]
    IN  IF n % 2 = 1 THEN 2 * At((n + 1) \div 2)
        ELSE At(n \div 2) + At(n \div 2 + 1)

RECURSIVE SumOver(_, _)
SumOver(f, S) ==
    IF S = {} THEN 0
    ELSE LET x == CHOOSE y \in S : TRUE IN f[x] + SumOver(f, S \ {x})

\* n^2 * population variance of the series
VarN2(hours) ==
    LET ids == DOMAIN hours
        n == Cardinality(ids)
    IN  n * SumOver([i \in ids |-> hours[i] * hours[i]], ids)
          - SumOver(hours, ids) * SumOver(hours, ids)

\* fairness_penalty: per employee of the cohort the numerator Q of
\* 8 * z * weight = Q / sqrt(V); std = 0 gives 0 for everyone.
fairness_penalty(hours_series, role, w) ==
    LET ids == DOMAIN hours_series
        n == Cardinality(ids)
        V == VarN2(hours_series)
    IN  IF ids = {} THEN [V |-> 1, q |-> [i \in {} |-> 0]]
        ELSE IF V = 0 THEN [V |-> 1, q |-> [i \in ids |-> 0]]
        ELSE [V |-> V,
              q |-> [i \in ids |->
                       w.fairness_penalty_per_std_above_median * n
                          * Max2(0, 2 * hours_series[i] - Median2(hours_series))]]

\* hours_deviation_penalty * 8 (half-hours times quarter rates)
hours_deviation_penalty(current_hours, role, hours_policy, hours_penalties) ==
    IF role \notin DOMAIN hours_policy \/ hours_policy[role] = <<>> THEN 0
    ELSE LET pol == hours_policy[role][1]
             below == Max2(0, pol.target_min - current_hours)
             above == Max2(0, current_hours - pol.target_max)
         IN  below * hours_penalties.per_hour_below_target
               + above * hours_penalties.per_hour_above_target

\* s1 > s2 for scores over the same V
ScoreGreater(s1, s2, V) ==
    LET a == s1[1] - s2[1]
        \* s1 - s2 = (a - (Q1 - Q2)/sqrt(V)) / 8 > 0  <=>  a * sqrt(V) > b
        b == s1[2] - s2[2]
    IN  IF a >= 0 /\ b < 0 THEN TRUE
        ELSE IF a <= 0 /\ b >= 0 THEN FALSE
        ELSE IF a > 0 THEN a * a * V > b * b
        ELSE a * a * V < b * b

\* Series.idxmax(): position of the first row holding a maximal score
IdxMax(scores, V) ==
    CHOOSE i \in 1..Len(scores) :
        /\ \A j \in 1..Len(scores) : ~ScoreGreater(scores[j], scores[i], V)
        /\ \A j \in 1..(i - 1) : ScoreGreater(scores[i], scores[j], V)


\* ------------------------------------------------------------------------
\* State
\* ------------------------------------------------------------------------
VARIABLES
    employees_df,      \* rows of the employees table, in row order
    shifts_df,         \* rows of the shifts table
    cfg,               \* SchedulerConfig
    pc,                \* position in greedy_schedule
    days,              \* the dates, in processing order
    day_i,             \* position of the day loop in days
    req_map,           \* requirements of the current day (an ordered dict)
    role_i,            \* position of the role loop in req_map
    assigned_today,
    fairness_by_role,
    weekly_hours,
    assignments,
    backtrack_buffer,
    slots_assigned,
    round_robin,
    error,             \* the exception that ended the run
    run,               \* 1: first run, 2: repeated run on the same inputs
    first_result,      \* outcome of the first run
    hash_seed          \* the process's string/bytes hash randomisation

\* build_week_schedule and Orchestrator.build_schedule
VARIABLES
    order_arg,         \* the scheduler_order argument: <<>> for None, <<o>> for a list o
    persist,           \* the persist argument
    scheduler_order,   \* Orchestrator.scheduler_order
    schedulers,        \* the schedulers created, by role name
    sched_i,           \* position of the run loop in schedulers
    all_assignments,
    orch_pc,           \* position in build_week_schedule
    orch_error,        \* the exception that left build_week_schedule
    made,              \* outcome of each make_schedule call, in call order
    validated,         \* the lists handed to validate_assignment_constraints
    built,             \* <<list>> once build_schedule has returned
    week_shift_ids,    \* ids of the week's rows of the shifts table
    initial_rows,      \* rows of the assignments table before the call
    stored             \* rows of the assignments table

orch == <<order_arg, persist, scheduler_order, schedulers, sched_i,
          all_assignments, orch_pc, orch_error, made, validated, built,
          week_shift_ids, initial_rows, stored>>

engine == <<employees_df, shifts_df, cfg, pc, days, day_i, req_map, role_i,
            assigned_today, fairness_by_role, weekly_hours, assignments,
            backtrack_buffer, slots_assigned, round_robin, error, run,
            first_result, hash_seed>>

\* a call of one of the stateless helpers: the function, its arguments and,
\* once it has run, its result
VARIABLES call

pure == <<call>>

NoCall == [fn |-> "", done |-> FALSE]

vars == <<engine, orch, pure>>

inputs == <<employees_df, shifts_df, cfg, hash_seed>>

NoError == [kind |-> "", day |-> 0, role |-> "", reason |-> ""]

NoOrchError == [kind |-> "", from |-> "", reason |-> ""]

\* ------------------------------------------------------------------------
\* Ordered dicts: sequences of [key, val] in insertion order
\* ------------------------------------------------------------------------
Keys(d) == {d[i].key : i \in 1..Len(d)}

Get(d, k, default) ==
    IF k \in Keys(d) THEN d[CHOOSE i \in 1..Len(d) : d[i].key = k].val
    ELSE default

\* d[k] = v
Put(d, k, v) ==
    IF k \in Keys(d)
    THEN [i \in 1..Len(d) |-> IF d[i].key = k THEN [key |-> k, val |-> v] ELSE d[i]]
    ELSE Append(d, [key |-> k, val |-> v])

\* for k, v in src.items(): d[k] = v
RECURSIVE Overlay(_, _)
Overlay(d, src) ==
    IF src = <<>> THEN d
    ELSE Overlay(Put(d, Head(src).key, Head(src).val), Tail(src))

\* ------------------------------------------------------------------------
\* scheduler/engine_baseline.py
\* ------------------------------------------------------------------------
\* build_requirements_for_day.  SchedulerConfig declares no attribute
\* weekend_requirements (cfg.weekend_requirements is absent), so reading it
\* on a Saturday or Sunday raises AttributeError.
build_requirements_for_day(date, c) ==
    LET req == c.default_requirements
        weekend == DayName(date) \in {"Saturday", "Sunday"}
    IN  IF weekend /\ c.weekend_requirements = <<>>
        THEN [raised |-> TRUE, req |-> <<>>]
        ELSE LET req1 == IF weekend THEN Overlay(req, c.weekend_requirements[1])
                         ELSE req
                 req2 == IF date \in DOMAIN c.overrides
                         THEN Overlay(req1, c.overrides[date]) ELSE req1
             IN  [raised |-> FALSE, req |-> req2]

\* scheduler/services/requirements.py: the same layers, the weekend layer
\* read with getattr(cfg, 'weekend_requirements', {})
services_build_requirements_for_day(date, c) ==
    LET req == c.default_requirements
        weekend == DayName(date) \in {"Saturday", "Sunday"}
        weekend_reqs == IF c.weekend_requirements = <<>> THEN <<>>
                        ELSE c.weekend_requirements[1]
        req1 == IF weekend THEN Overlay(req, weekend_reqs) ELSE req
        req2 == IF date \in DOMAIN c.overrides
                THEN Overlay(req1, c.overrides[date]) ELSE req1
    IN  [raised |-> FALSE, req |-> req2]

\* the dates in the iteration order of a hash set
SortedDays_HashOrder(shifts, c) ==
    LET asc == SortInts({s.date : s \in shifts})
    IN  IF hash_seed = 0 THEN asc
        ELSE [i \in 1..Len(asc) |-> asc[Len(asc) + 1 - i]]

\* the dates in ascending order whatever schedule_busy_days_first says
SortedDays_IgnoresBusyFirst(shifts, c) == SortInts({s.date : s \in shifts})

\* shifts_df.sort_values(["date", "shift_id"]); unique dates; optionally the
\* busy days first
SortedDays(shifts, c) ==
    LET dates == {s.date : s \in shifts}
        busy == {d \in dates : DayName(d) \in c.busy_days}
    IN  IF c.schedule_busy_days_first
        THEN SortInts(busy) \o SortInts(dates \ busy)
        ELSE SortInts(dates)

\* shift ids of the day, ascending
ShiftIds(shifts, day) == SortInts({s.shift_id : s \in {t \in shifts : t.date = day}})

\* employees_df[employees_df["primary_role"].str.upper() == role]
RoleCandidates(emps, role) ==
    SelectSeq(emps, LAMBDA r : Upper(r.primary_role) = role)

\* the hours series of the role cohort at the start of the day
HoursSeries(emps, role, hours) ==
    [i \in {r.employee_id : r \in Range(RoleCandidates(emps, role))} |-> hours[i]]

RoleWindows(c, role) ==
    IF role \in DOMAIN c.role_time_windows THEN c.role_time_windows[role]
    ELSE [weekday |-> <<>>, weekend_staggered |-> <<>>, weekend |-> <<>>]

\* s * k for a list s
RECURSIVE Repeat(_, _)
Repeat(s, k) == IF k <= 0 THEN <<>> ELSE s \o Repeat(s, k - 1)

\* time windows of the role's slots on the day, and the shift type label
TimePatterns(c, role, is_busy_day, needed) ==
    LET rw == RoleWindows(c, role)
        dflt == [start |-> c.default_shift.start, end |-> c.default_shift.end]
        base ==
            IF role \in {"BARISTA", "WAITER"} THEN
                IF is_busy_day THEN
                    IF Len(rw.weekend_staggered) >= 2
                    THEN SubSeq(rw.weekend_staggered, 1, 2)
                    ELSE <<dflt, dflt>>
                ELSE IF Len(rw.weekday) >= 1 THEN <<rw.weekday[1]>>
                     ELSE <<dflt>>
            ELSE IF role = "SANDWICH" THEN
                IF is_busy_day THEN
                    IF Len(rw.weekend) >= 2 THEN SubSeq(rw.weekend, 1, 2)
                    ELSE <<[start |-> 10, end |-> 27], [start |-> 12, end |-> 27]>>
                ELSE IF Len(rw.weekday) >= 1 THEN <<rw.weekday[1]>>
                     ELSE <<[start |-> 10, end |-> 24]>>
            ELSE <<dflt>>
        label ==
            IF role \in {"BARISTA", "WAITER", "SANDWICH"}
            THEN IF is_busy_day THEN "weekend_double" ELSE "weekday_single"
            ELSE IF is_busy_day THEN "weekend_single" ELSE "weekday_single"
        patterns ==
            IF Len(base) = 1 /\ needed > 1 THEN Repeat(base, needed)
            ELSE IF Len(base) >= 2 /\ needed > Len(base)
            THEN SubSeq(Repeat(base, (needed + Len(base) - 1) \div Len(base)),
                        1, needed)
            ELSE base
    IN  [patterns |-> patterns, label |-> label]

\* a SlotWindow that gives every slot the first pattern
SlotWindow_FirstPattern(c, role, is_busy_day, needed, slots) ==
    TimePatterns(c, role, is_busy_day, needed).patterns[1]

\* the window of slot number slots (0-based) of the role
SlotWindow(c, role, is_busy_day, needed, slots) ==
    LET tp == TimePatterns(c, role, is_busy_day, needed).patterns
    IN  IF slots < Len(tp) THEN tp[slots + 1]
        ELSE [start |-> c.default_shift.start, end |-> c.default_shift.end]

\* role_pol.get("hard_cap", cfg.hours_caps.max_hours_per_week_per_employee)
RoleCap(c, role) ==
    IF role \in DOMAIN c.hours_policy /\ c.hours_policy[role] # <<>>
    THEN c.hours_policy[role][1].hard_cap
    ELSE c.hours_caps.max_hours_per_week_per_employee

\* eligible_mask without the assigned_today test
eligible_mask_NoTodayCheck(r, c, role, day, w, today, hours) ==
    LET emp_id == r.employee_id
        b == local_day_bounds(day, w.start, w.end)
        slot_hours == Elapsed(b[1], b[2])
    IN  IF hours[emp_id] + slot_hours > RoleCap(c, role) THEN FALSE
        ELSE IF c.global_hard_cap # <<>>
                /\ hours[emp_id] + slot_hours > c.global_hard_cap[1] THEN FALSE
        ELSE is_role_eligible(r.primary_role, role)

\* eligible_mask comparing the hours before the slot with the caps
eligible_mask_IgnoresSlotHours(r, c, role, day, w, today, hours) ==
    LET emp_id == r.employee_id
    IN  IF emp_id \in today THEN FALSE
        ELSE IF hours[emp_id] > RoleCap(c, role) THEN FALSE
        ELSE IF c.global_hard_cap # <<>>
                /\ hours[emp_id] > c.global_hard_cap[1] THEN FALSE
        ELSE is_role_eligible(r.primary_role, role)

\* eligible_mask refusing an employee who would land exactly on a cap
eligible_mask_CapInclusive(r, c, role, day, w, today, hours) ==
    LET emp_id == r.employee_id
        b == local_day_bounds(day, w.start, w.end)
        slot_hours == Elapsed(b[1], b[2])
    IN  IF emp_id \in today THEN FALSE
        ELSE IF hours[emp_id] + slot_hours >= RoleCap(c, role) THEN FALSE
        ELSE IF c.global_hard_cap # <<>>
                /\ hours[emp_id] + slot_hours >= c.global_hard_cap[1] THEN FALSE
        ELSE is_role_eligible(r.primary_role, role)

\* eligible_mask of the slot loop
eligible_mask(r, c, role, day, w, today, hours) ==
    LET emp_id == r.employee_id
        b == local_day_bounds(day, w.start, w.end)
        slot_hours == Elapsed(b[1], b[2])
    IN  IF emp_id \in today THEN FALSE
        ELSE IF hours[emp_id] + slot_hours > RoleCap(c, role) THEN FALSE
        ELSE IF c.global_hard_cap # <<>>
                /\ hours[emp_id] + slot_hours > c.global_hard_cap[1] THEN FALSE
        ELSE is_role_eligible(r.primary_role, role)

Pool(emps, c, role, day, w, today, hours) ==
    SelectSeq(RoleCandidates(emps, role),
              LAMBDA r : eligible_mask(r, c, role, day, w, today, hours))

FairnessOf(fmap, role, emp_id) ==
    IF role \in DOMAIN fmap /\ emp_id \in DOMAIN fmap[role].q
    THEN fmap[role].q[emp_id] ELSE 0

FairnessV(fmap, role) == IF role \in DOMAIN fmap THEN fmap[role].V ELSE 1

\* score_row of the slot loop
score_row(r, c, role, day, w, hours, fmap) ==
    LET b == local_day_bounds(day, w.start, w.end)
        post_hours == hours[r.employee_id] + Elapsed(b[1], b[2])
    IN  IF post_hours > RoleCap(c, role) THEN <<-8000, 0>>
        ELSE <<2 * role_fitness(r, role, c.weights)
                 - hours_deviation_penalty(post_hours, role, c.hours_policy,
                                           c.hours_penalties),
               FairnessOf(fmap, role, r.employee_id)>>

\* the row of the pool that scores.idxmax() selects
Chosen(pool, c, role, day, w, hours, fmap) ==
    pool[IdxMax([i \in 1..Len(pool) |->
                    score_row(pool[i], c, role, day, w, hours, fmap)],
                FairnessV(fmap, role))]


\* ------------------------------------------------------------------------
\* greedy_schedule, one action per step of its loops
\* ------------------------------------------------------------------------
CurDay == days[day_i]
IsBusyDay == DayName(CurDay) \in cfg.busy_days
DayType == IF IsBusyDay THEN "weekend" ELSE "weekday"
CurRole == req_map[role_i].key
Needed == req_map[role_i].val
CurCandidates == RoleCandidates(employees_df, CurRole)
CurWindow == SlotWindow(cfg, CurRole, IsBusyDay, Needed, slots_assigned)
CurPool == Pool(employees_df, cfg, CurRole, CurDay, CurWindow, assigned_today,
                weekly_hours)

EmployeeIds == {r.employee_id : r \in Range(employees_df)}

CoverageError(day, role, reason) ==
    [kind |-> "RuntimeError", day |-> day, role |-> role, reason |-> reason]

\* lines 50-76: sort the shifts, order the days, empty ledger and result
Prepare ==
    /\ pc = "start"
    /\ days' = SortedDays(shifts_df, cfg)
    /\ day_i' = 1
    /\ weekly_hours' = [i \in EmployeeIds |-> 0]
    /\ assignments' = <<>>
    /\ pc' = "day"
    /\ UNCHANGED <<orch, pure>>
    /\ UNCHANGED <<inputs, req_map, role_i, assigned_today, fairness_by_role,
                   backtrack_buffer, slots_assigned, round_robin, error, run,
                   first_result>>

\* lines 79-107: top of the day loop
StartDay ==
    /\ pc = "day"
    /\ day_i <= Len(days)
    /\ LET r == build_requirements_for_day(CurDay, cfg)
       IN  IF r.raised
           THEN /\ pc' = "raised"
                /\ error' = [kind |-> "AttributeError", day |-> CurDay,
                             role |-> "", reason |-> "weekend_requirements"]
                /\ UNCHANGED <<req_map, role_i, assigned_today, fairness_by_role>>
           ELSE /\ req_map' = r.req
                /\ assigned_today' = {}
                /\ fairness_by_role' =
                       [role \in Keys(r.req) |->
                           fairness_penalty(
                               HoursSeries(employees_df, role, weekly_hours),
                               role, cfg.weights)]
                /\ role_i' = 1
                /\ pc' = "role"
                /\ UNCHANGED error
    /\ UNCHANGED <<orch, pure>>
    /\ UNCHANGED <<inputs, days, day_i, weekly_hours, assignments,
                   backtrack_buffer, slots_assigned, round_robin, run,
                   first_result>>

\* lines 387-402: the day loop is over, the schedule is returned
Return ==
    /\ pc = "day"
    /\ day_i > Len(days)
    /\ pc' = "returned"
    /\ UNCHANGED <<orch, pure>>
    /\ UNCHANGED <<inputs, days, day_i, req_map, role_i, assigned_today,
                   fairness_by_role, weekly_hours, assignments,
                   backtrack_buffer, slots_assigned, round_robin, error, run,
                   first_result>>

\* lines 109-183: top of the role loop
StartRole ==
    /\ pc = "role"
    /\ role_i <= Len(req_map)
    /\ IF Needed = 0
       THEN /\ role_i' = role_i + 1
            /\ UNCHANGED <<pc, error, slots_assigned, round_robin,
                           backtrack_buffer>>
       ELSE IF CurCandidates = <<>>
       THEN /\ pc' = "raised"
            /\ error' = CoverageError(CurDay, CurRole, "no eligible employees")
            /\ UNCHANGED <<role_i, slots_assigned, round_robin, backtrack_buffer>>
       ELSE /\ round_robin' = ShiftIds(shifts_df, CurDay)
            /\ slots_assigned' = 0
            /\ backtrack_buffer' = <<>>
            /\ pc' = "slot"
            /\ UNCHANGED <<role_i, error>>
    /\ UNCHANGED <<orch, pure>>
    /\ UNCHANGED <<inputs, days, day_i, req_map, assigned_today,
                   fairness_by_role, weekly_hours, assignments, run,
                   first_result>>

\* end of the role loop: next day
EndDay ==
    /\ pc = "role"
    /\ role_i > Len(req_map)
    /\ day_i' = day_i + 1
    /\ pc' = "day"
    /\ UNCHANGED <<orch, pure>>
    /\ UNCHANGED <<inputs, days, req_map, role_i, assigned_today,
                   fairness_by_role, weekly_hours, assignments,
                   backtrack_buffer, slots_assigned, round_robin, error, run,
                   first_result>>

\* the slot loop stopping one slot early
SlotsRemain_OffByOne == slots_assigned + 1 < Needed

\* line 185: while slots_assigned < needed
SlotsRemain == slots_assigned < Needed

\* lines 186-188: refill the round robin when exhausted, then popleft
Refilled == IF round_robin = <<>> THEN ShiftIds(shifts_df, CurDay) ELSE round_robin

\* lines 185-209, 265-325: a slot whose pool is not empty is committed
AssignSlot ==
    /\ pc = "slot"
    /\ SlotsRemain
    /\ CurPool # <<>>
    /\ round_robin' = Tail(Refilled)
    /\ LET current_shift_id == Head(Refilled)
           w == CurWindow
           b == local_day_bounds(CurDay, w.start, w.end)
           \* lines 266-277: the pool filtered again by the role hard cap
           pool == SelectSeq(CurPool, LAMBDA rr :
                       weekly_hours[rr.employee_id] + Elapsed(b[1], b[2])
                           <= RoleCap(cfg, CurRole))
       IN  IF pool = <<>>
           THEN /\ pc' = "raised"
                /\ error' = CoverageError(CurDay, CurRole,
                                "insufficient eligible staff within hour caps")
                /\ UNCHANGED <<assignments, backtrack_buffer, weekly_hours,
                               assigned_today, slots_assigned>>
           ELSE LET chosen == Chosen(pool, cfg, CurRole, CurDay, w,
                                     weekly_hours, fairness_by_role)
                    emp_id == chosen.employee_id
                    assign == [shift_id |-> current_shift_id,
                               emp_id |-> emp_id,
                               start_time |-> to_iso_with_tz(b[1]),
                               end_time |-> to_iso_with_tz(b[2]),
                               role |-> CurRole,
                               shift_type |-> TimePatterns(cfg, CurRole,
                                                  IsBusyDay, Needed).label,
                               day_type |-> DayType]
                IN  /\ assignments' = Append(assignments, assign)
                    /\ backtrack_buffer' =
                           Append(backtrack_buffer,
                                  [idx |-> Len(assignments) + 1, assign |-> assign])
                    /\ weekly_hours' =
                           [weekly_hours EXCEPT ![emp_id] = @ + Elapsed(b[1], b[2])]
                    /\ assigned_today' = assigned_today \cup {emp_id}
                    /\ slots_assigned' = slots_assigned + 1
                    /\ UNCHANGED <<pc, error>>
    /\ UNCHANGED <<orch, pure>>
    /\ UNCHANGED <<inputs, days, day_i, req_map, role_i, fairness_by_role,
                   run, first_result>>

\* an alternative pool computed with the buffered assignment undone: its
\* own window, its hours given back, its employee free again
AltPool_AfterUndo(prev) ==
    SelectSeq(SelectSeq(CurCandidates,
                        LAMBDA r : r.employee_id # prev.emp_id),
              LAMBDA r : eligible_mask(r, cfg, CurRole, CurDay,
                             [start |-> prev.start_time.min, end |-> prev.end_time.min],
                             assigned_today \ {prev.emp_id},
                             [weekly_hours EXCEPT ![prev.emp_id] =
                                 @ - (ToUtc(prev.end_time) - ToUtc(prev.start_time))]))

\* lines 213-221: the pool that would replace the employee of a buffered
\* assignment; the ledger and assigned_today are as they are at the stuck slot
AltPool(prev) ==
    SelectSeq(SelectSeq(CurCandidates,
                        LAMBDA r : r.employee_id # prev.emp_id),
              LAMBDA r : eligible_mask(r, cfg, CurRole, CurDay, CurWindow,
                                       assigned_today, weekly_hours))

\* positions of the buffer whose assignment could be swapped
Swappable == {k \in 1..Len(backtrack_buffer) :
                 AltPool(backtrack_buffer[k].assign) # <<>>}

\* lines 222-230: best alternative by fitness minus fairness
AltBest(prev) ==
    LET alt == AltPool(prev)
    IN  alt[IdxMax([i \in 1..Len(alt) |->
                       <<2 * role_fitness(alt[i], CurRole, cfg.weights),
                         FairnessOf(fairness_by_role, CurRole,
                                    alt[i].employee_id)>>],
                   FairnessV(fairness_by_role, CurRole))]

\* an empty pool that sends the loop back to the slot without a swap and
\* without raising
RepairOrRaise_Retries ==
    /\ pc = "slot"
    /\ SlotsRemain
    /\ CurPool = <<>>
    /\ round_robin' = Tail(Refilled)
    /\ UNCHANGED <<orch, pure>>
    /\ UNCHANGED <<inputs, pc, days, day_i, req_map, role_i, assigned_today,
                   fairness_by_role, weekly_hours, assignments, backtrack_buffer,
                   slots_assigned, error, run, first_result>>

\* lines 210-263: the pool is empty; swap within the day's role, or raise
RepairOrRaise ==
    /\ pc = "slot"
    /\ SlotsRemain
    /\ CurPool = <<>>
    /\ round_robin' = Tail(Refilled)
    /\ IF Swappable = {}
       THEN /\ pc' = "raised"
            /\ error' = CoverageError(CurDay, CurRole,
                            "insufficient eligible staff within hour caps")
            /\ UNCHANGED <<assignments, backtrack_buffer, weekly_hours,
                           assigned_today>>
       ELSE LET k == CHOOSE x \in Swappable : \A y \in Swappable : y <= x
                idx == backtrack_buffer[k].idx
                prev == backtrack_buffer[k].assign
                best_emp_id == AltBest(prev).employee_id
                prev_hours == ToUtc(prev.end_time) - ToUtc(prev.start_time)
                b == local_day_bounds(CurDay, CurWindow.start, CurWindow.end)
                swapped == [shift_id |-> prev.shift_id, emp_id |-> best_emp_id,
                            start_time |-> prev.start_time,
                            end_time |-> prev.end_time, role |-> CurRole,
                            shift_type |-> "None", day_type |-> "None"]
                reverted == [weekly_hours EXCEPT ![prev.emp_id] = @ - prev_hours]
            IN  /\ weekly_hours' =
                       [reverted EXCEPT ![best_emp_id] = @ + Elapsed(b[1], b[2])]
                /\ assigned_today' =
                       (assigned_today \ {prev.emp_id}) \cup {best_emp_id}
                /\ assignments' = [assignments EXCEPT ![idx] = swapped]
                \* backtrack_buffer[idx] = ... with idx an index of assignments
                /\ IF idx <= Len(backtrack_buffer)
                   THEN /\ backtrack_buffer' =
                               [backtrack_buffer EXCEPT
                                   ![idx] = [idx |-> idx, assign |-> swapped]]
                        /\ UNCHANGED <<pc, error>>
                   ELSE /\ pc' = "raised"
                        /\ error' = [kind |-> "IndexError", day |-> CurDay,
                                     role |-> CurRole,
                                     reason |-> "backtrack_buffer"]
                        /\ UNCHANGED backtrack_buffer
    /\ UNCHANGED <<orch, pure>>
    /\ UNCHANGED <<inputs, days, day_i, req_map, role_i, fairness_by_role,
                   slots_assigned, run, first_result>>


\* lines 327-385: weekend fallback after the slot loop, then the next role
FinishRole ==
    /\ pc = "slot"
    /\ ~SlotsRemain
    /\ LET fb_on == /\ slots_assigned < Needed
                    /\ IsBusyDay
                    /\ CurRole \in DOMAIN cfg.weekend_fallback
                    /\ cfg.weekend_fallback[CurRole].enabled
       IN  IF ~fb_on
           THEN /\ role_i' = role_i + 1
                /\ pc' = "role"
                /\ UNCHANGED <<assignments, weekly_hours, assigned_today,
                               slots_assigned, error>>
           ELSE LET fb == cfg.weekend_fallback[CurRole]
                    w == [start |-> cfg.default_shift.start,
                          end |-> cfg.default_shift.end]
                    b == local_day_bounds(CurDay, w.start, w.end)
                    fb_pool == Pool(employees_df, cfg, CurRole, CurDay, w,
                                    assigned_today, weekly_hours)
                    try == fb.allow_single_full_shift /\ fb_pool # <<>>
                    scores == [i \in 1..Len(fb_pool) |->
                        <<2 * role_fitness(fb_pool[i], CurRole, cfg.weights)
                            - hours_deviation_penalty(
                                  weekly_hours[fb_pool[i].employee_id]
                                      + Elapsed(b[1], b[2]),
                                  CurRole, cfg.hours_policy, cfg.hours_penalties),
                          FairnessOf(fairness_by_role, CurRole,
                                     fb_pool[i].employee_id)>>]
                    emp_fb == fb_pool[IdxMax(scores,
                                  FairnessV(fairness_by_role, CurRole))].employee_id
                    assign_fb == [shift_id |-> ShiftIds(shifts_df, CurDay)[1],
                                  emp_id |-> emp_fb,
                                  start_time |-> to_iso_with_tz(b[1]),
                                  end_time |-> to_iso_with_tz(b[2]),
                                  role |-> CurRole,
                                  shift_type |-> "weekend_fallback_single",
                                  day_type |-> DayType]
                    filled == IF try THEN slots_assigned + 1 ELSE slots_assigned
                IN  /\ assignments' = IF try THEN Append(assignments, assign_fb)
                                      ELSE assignments
                    /\ weekly_hours' =
                           IF try THEN [weekly_hours EXCEPT
                                           ![emp_fb] = @ + Elapsed(b[1], b[2])]
                           ELSE weekly_hours
                    /\ assigned_today' = IF try THEN assigned_today \cup {emp_fb}
                                         ELSE assigned_today
                    /\ slots_assigned' = filled
                    /\ IF filled < fb.min_required
                       THEN /\ pc' = "raised"
                            /\ error' = CoverageError(CurDay, CurRole,
                                            "even after weekend fallback")
                            /\ UNCHANGED role_i
                       ELSE /\ role_i' = role_i + 1
                            /\ pc' = "role"
                            /\ UNCHANGED error
    /\ UNCHANGED <<orch, pure>>
    /\ UNCHANGED <<inputs, days, day_i, req_map, fairness_by_role,
                   backtrack_buffer, round_robin, run, first_result>>

\* ------------------------------------------------------------------------
\* Inputs
\* ------------------------------------------------------------------------
Employee(id, role, s) ==
    [employee_id |-> id, primary_role |-> role, skill_coffee |-> s,
     skill_sandwich |-> s, skill_speed |-> s, customer_service_rating |-> s]

EmpRoles == <<"MANAGER", "BARISTA", "barista", "CHEF">>
Skills == {1, 2}

\* tables of 1..MaxEmployees rows with distinct ids, ascending or descending
\* in row order, the rows grouped by role; the first row has skill 1
EmployeeTables ==
    UNION {
      { [i \in 1..n |-> Employee(IF asc THEN i ELSE n + 1 - i, EmpRoles[roles[i]],
                                 IF i = 1 THEN 1 ELSE sk)] :
            roles \in {f \in [1..n -> 1..Len(EmpRoles)] :
                          \A i \in 1..n, j \in 1..n : i < j => f[i] <= f[j]},
            sk \in Skills, asc \in BOOLEAN }
      : n \in 1..MaxEmployees }

\* Thursday 4, Friday 5 and Saturday 6 of September 2025
Dates == 4..6

DateSets == { {4}, {6}, {4, 5}, {4, 5, 6} }

\* shift tables: one to MaxShiftsPerDay shifts on each date of a set of
\* dates; shift ids are 10 * date + k
ShiftTables ==
    { UNION { {[shift_id |-> 10 * d + k, date |-> d] : k \in 1..per} : d \in ds }
        : ds \in DateSets, per \in 1..MaxShiftsPerDay }

Window(a, b) == [start |-> a, end |-> b]

Weights == [manager_weight |-> 4, coffee |-> 4, sandwich |-> 4, speed |-> 2,
            customer_service |-> 2, fairness_penalty_per_std_above_median |-> 1]

\* the SchedulerConfig of a choice of its settings
MkCfg(m, b, ov, busy, first, capmax, pol, gcap, win, fb) ==
    [default_shift |-> [start |-> 14, end |-> 30, duration_hours |-> 16],
     default_requirements |-> <<[key |-> "MANAGER", val |-> m],
                                [key |-> "BARISTA", val |-> b]>>,
     weekend_requirements |-> <<>>,
     overrides |-> ov,
     hours_caps |-> [max_hours_per_week_per_employee |-> capmax],
     weights |-> Weights,
     busy_days |-> busy,
     role_time_windows |-> win,
     hours_policy |-> pol,
     hours_penalties |-> [per_hour_below_target |-> 2, per_hour_above_target |-> 3],
     global_hard_cap |-> gcap,
     schedule_busy_days_first |-> first,
     weekend_fallback |-> fb]

NoMap == [r \in {} |-> <<>>]

OverrideChoices ==
    { NoMap,
      [d \in {5} |-> <<[key |-> "SANDWICH", val |-> 1]>>],
      [d \in {5} |-> <<[key |-> "CHEF", val |-> 1], [key |-> "BARISTA", val |-> 0]>>] }

BusyChoices == { {"Saturday", "Sunday"}, {"Friday"} }

CapChoices == {16, 32}

PolicyChoices ==
    { NoMap,
      [r \in {"BARISTA"} |-> <<[target_min |-> 4, target_max |-> 8, hard_cap |-> 6]>>],
      [r \in {"BARISTA"} |-> <<[target_min |-> 24, target_max |-> 32, hard_cap |-> 32]>>] }

GlobalCapChoices == { <<>>, <<16>> }

WindowChoices ==
    { NoMap,
      [r \in {"BARISTA"} |->
          [weekday |-> <<Window(14, 18)>>,
           weekend_staggered |-> <<Window(14, 22), Window(22, 30)>>,
           weekend |-> <<>>]] }

FallbackChoices ==
    { NoMap,
      [r \in {"BARISTA"} |->
          [enabled |-> TRUE, min_required |-> 1, allow_single_full_shift |-> TRUE]] }

\* number of settings that differ from the default configuration
Deviations(ov, busy, first, capmax, pol, gcap, win, fb) ==
    (IF ov = NoMap THEN 0 ELSE 1) + (IF busy = {"Saturday", "Sunday"} THEN 0 ELSE 1)
      + (IF first THEN 1 ELSE 0) + (IF capmax = 32 THEN 0 ELSE 1)
      + (IF pol = NoMap THEN 0 ELSE 1) + (IF gcap = <<>> THEN 0 ELSE 1)
      + (IF win = NoMap THEN 0 ELSE 1) + (IF fb = NoMap THEN 0 ELSE 1)

MaxDeviations == 1

\* configurations with at most n settings off their defaults
ConfigsUpTo(n) ==
    { MkCfg(m, b, ov, busy, first, capmax, pol, gcap, win, fb) :
        m \in 0..1, b \in 0..MaxReq,
        <<ov, busy, first, capmax, pol, gcap, win, fb>> \in
          { t \in OverrideChoices \X BusyChoices \X BOOLEAN \X CapChoices
                    \X PolicyChoices \X GlobalCapChoices \X WindowChoices
                    \X FallbackChoices :
               Deviations(t[1], t[2], t[3], t[4], t[5], t[6], t[7], t[8]) <= n } }

\* configurations that give a role both an hours policy and time windows
ShortShiftConfigs ==
    { MkCfg(m, b, NoMap, {"Saturday", "Sunday"}, FALSE, 32, pol, <<>>, win, NoMap) :
        m \in 0..1, b \in 0..MaxReq,
        pol \in PolicyChoices \ {NoMap}, win \in WindowChoices \ {NoMap} }

\* configurations that schedule a busy Friday before the other days
BusyFirstConfigs ==
    { MkCfg(m, b, NoMap, {"Friday"}, TRUE, 32, NoMap, <<>>, NoMap, NoMap) :
        m \in 0..1, b \in 0..MaxReq }

\* configurations for a busy Friday that asks for two BARISTAs in staggered
\* windows of 4 and 8 hours under a 12-hour weekly cap, after a Thursday that
\* asks for one
RepairConfigs ==
    { MkCfg(m, 1, [d \in {5} |-> <<[key |-> "BARISTA", val |-> 2]>>], {"Friday"}, FALSE, 24,
            NoMap, <<>>,
            [r \in {"BARISTA"} |->
                [weekday |-> <<>>, weekend |-> <<>>,
                 weekend_staggered |-> <<Window(14, 22), Window(14, 30)>>]],
            NoMap) : m \in 0..1 }

\* configurations with the weekend fallback enabled on a busy Friday that
\* asks for two BARISTAs
FallbackConfigs ==
    { MkCfg(m, 1, [d \in {5} |-> <<[key |-> "BARISTA", val |-> 2]>>], {"Friday"}, FALSE, 32,
            NoMap, <<>>, NoMap, fb) :
        m \in 0..1, fb \in FallbackChoices \ {NoMap} }

Configs ==
    ConfigsUpTo(MaxDeviations) \cup ShortShiftConfigs \cup BusyFirstConfigs
        \cup RepairConfigs \cup FallbackConfigs

\* ------------------------------------------------------------------------
\* Specification of one run of greedy_schedule
\* ------------------------------------------------------------------------
\* no call of greedy_schedule has started
EngineStart ==
    /\ pc = "start"
    /\ days = <<>>
    /\ day_i = 0
    /\ req_map = <<>>
    /\ role_i = 0
    /\ assigned_today = {}
    /\ fairness_by_role = NoMap
    /\ weekly_hours = NoMap
    /\ assignments = <<>>
    /\ backtrack_buffer = <<>>
    /\ slots_assigned = 0
    /\ round_robin = <<>>
    /\ error = NoError
    /\ run = 1
    /\ first_result = <<>>
    /\ hash_seed = 0

\* no call of build_week_schedule has started
OrchIdle ==
    /\ order_arg = <<>>
    /\ persist = FALSE
    /\ scheduler_order = <<>>
    /\ schedulers = <<>>
    /\ sched_i = 0
    /\ all_assignments = <<>>
    /\ orch_pc = "idle"
    /\ orch_error = NoOrchError
    /\ made = <<>>
    /\ validated = <<>>
    /\ built = <<>>
    /\ week_shift_ids = {}
    /\ initial_rows = <<>>
    /\ stored = <<>>

Init ==
    /\ employees_df \in EmployeeTables
    /\ shifts_df \in ShiftTables
    /\ cfg \in Configs
    /\ EngineStart
    /\ OrchIdle
    /\ call = NoCall

Next ==
    \/ Prepare
    \/ StartDay
    \/ Return
    \/ StartRole
    \/ EndDay
    \/ AssignSlot
    \/ RepairOrRaise
    \/ FinishRole

Spec == Init /\ [][Next]_vars

\* one run that is never suspended for ever: greedy_schedule is synchronous
\* and single-threaded, so a step that can be taken is taken
InitLive ==
    /\ employees_df \in EmployeeTables
    /\ shifts_df \in {t \in ShiftTables : {sh.date : sh \in t} = {4, 5}}
    /\ cfg \in ConfigsUpTo(0) \cup RepairConfigs \cup FallbackConfigs
    /\ EngineStart
    /\ OrchIdle
    /\ call = NoCall

SpecLive == InitLive /\ [][Next]_vars /\ WF_vars(Next)

\* ------------------------------------------------------------------------
\* Two runs on the same employees, shifts and config
\* ------------------------------------------------------------------------
\* what a finished run hands to its caller: the schedule or the exception
Result ==
    IF pc = "returned" THEN [returned |-> TRUE, schedule |-> assignments,
                             error |-> NoError]
    ELSE [returned |-> FALSE, schedule |-> <<>>, error |-> error]

\* a second process runs greedy_schedule on the same inputs; its hash
\* randomisation is its own
Rerun ==
    /\ pc \in {"returned", "raised"}
    /\ run = 1
    /\ first_result' = <<Result>>
    /\ run' = 2
    /\ hash_seed' \in {0, 1}
    /\ pc' = "start"
    /\ days' = <<>>
    /\ day_i' = 0
    /\ req_map' = <<>>
    /\ role_i' = 0
    /\ assigned_today' = {}
    /\ fairness_by_role' = NoMap
    /\ weekly_hours' = NoMap
    /\ assignments' = <<>>
    /\ backtrack_buffer' = <<>>
    /\ slots_assigned' = 0
    /\ round_robin' = <<>>
    /\ error' = NoError
    /\ UNCHANGED <<employees_df, shifts_df, cfg>>
    /\ UNCHANGED <<orch, pure>>

NextTwice == Next \/ Rerun

\* the repeated run is explored on the configurations one setting closer to
\* the default, and on those that reorder the days
InitTwice ==
    /\ employees_df \in EmployeeTables
    /\ shifts_df \in ShiftTables
    /\ cfg \in ConfigsUpTo(MaxDeviations - 1) \cup BusyFirstConfigs
    /\ EngineStart
    /\ OrchIdle
    /\ call = NoCall

SpecTwice == InitTwice /\ [][NextTwice]_vars


\* ------------------------------------------------------------------------
\* scheduler/services/constraints.py: validate_assignment_constraints
\* ------------------------------------------------------------------------
\* a local datetime of an Assignment row: date and half-hour of the day
DateTime(d, hm) == [date |-> d, hm |-> hm]

\* position of a datetime on the local time line, in half-hours
Instant(t) == t.date * 48 + t.hm

\* hard_cap of a role that has none in hours_policy (40.0 hours)
DefaultHardCap == 80

\* "" when no rule is broken, else the rule of the ValueError raised
validate_assignment_constraints(assigns, employees, c) ==
    LET n == Len(assigns)
        emp_lookup(id) == {e \in Range(employees) : e.employee_id = id}
        overlaps ==
            \E i \in 1..n, j \in 1..n :
                /\ i < j
                /\ assigns[i].emp_id = assigns[j].emp_id
                /\ assigns[i].start_time.date = assigns[j].start_time.date
                /\ Instant(assigns[i].start_time) < Instant(assigns[j].end_time)
                /\ Instant(assigns[j].start_time) < Instant(assigns[i].end_time)
        total_hours(id) ==
            SumSeq([i \in 1..n |->
                      IF assigns[i].emp_id = id
                      THEN Instant(assigns[i].end_time) - Instant(assigns[i].start_time)
                      ELSE 0])
        hard_cap(role) ==
            IF role \in DOMAIN c.hours_policy /\ c.hours_policy[role] # <<>>
            THEN c.hours_policy[role][1].hard_cap
            ELSE DefaultHardCap
        over_cap ==
            \E i \in 1..n : \E emp \in emp_lookup(assigns[i].emp_id) :
                total_hours(assigns[i].emp_id) > hard_cap(emp.primary_role)
        outside_hours ==
            \E i \in 1..n : \E emp \in emp_lookup(assigns[i].emp_id) :
                /\ emp.primary_role # "SANDWICH"
                /\ \/ assigns[i].start_time.hm \div 2 < 7
                   \/ assigns[i].end_time.hm \div 2 > 15
    IN  IF overlaps THEN "overlap"
        ELSE IF over_cap THEN "hard_cap"
        ELSE IF outside_hours THEN "cafe_hours"
        ELSE ""

\* ------------------------------------------------------------------------
\* scheduler/domain/repositories.py: AssignmentRepository
\* ------------------------------------------------------------------------
\* a delete_by_week that deletes nothing
delete_by_week_KeepsRows(rows, shift_ids) == rows

\* delete_by_week: the table without the rows of the week's shifts
delete_by_week(rows, shift_ids) ==
    IF shift_ids = {} THEN rows
    ELSE SelectSeq(rows, LAMBDA a : a.shift_id \notin shift_ids)

\* bulk_create: session.add_all and commit
bulk_create(rows, new_rows) == rows \o new_rows

\* ------------------------------------------------------------------------
\* scheduler/engine/base.py: BaseScheduler
\* ------------------------------------------------------------------------
MaxOutput == 1

Assignment(shift, emp, d, w, role) ==
    [shift_id |-> shift, emp_id |-> emp, start_time |-> DateTime(d, w.start),
     end_time |-> DateTime(d, w.end), role |-> role]

\* the employees table read by EmployeeRepository.get_all
OrchEmployees ==
    <<Employee(1, "MANAGER", 1), Employee(2, "SANDWICH", 1),
      Employee(3, "BARISTA", 1), Employee(4, "WAITER", 1)>>

OrchWindows == {Window(14, 22), Window(22, 30), Window(18, 32)}

\* the assignments a scheduler of a role can make for the week: its
\* employee, on a shift of the week (date 1)
AssignmentsOf(role) ==
    { Assignment(sh, e.employee_id, 1, w, role) :
        sh \in week_shift_ids,
        e \in {x \in Range(OrchEmployees) : x.primary_role = role},
        w \in OrchWindows }

\* lists of at most n elements of a set
ListsUpTo(S, n) == UNION {[1..k -> S] : k \in 0..n}

\* make_schedule returns a list of assignments of the scheduler's role, not
\* yet persisted, or raises
make_schedule(role) ==
    { [raised |-> FALSE, role |-> role, assignments |-> l, error |-> NoOrchError] :
        l \in ListsUpTo(AssignmentsOf(role), MaxOutput) }
    \cup
    { [raised |-> TRUE, role |-> role, assignments |-> <<>>,
       error |-> [kind |-> k, from |-> role, reason |-> "scheduling failed"]] :
        k \in {"RuntimeError", "ValueError"} }

\* ------------------------------------------------------------------------
\* scheduler/engine/orchestrator.py
\* ------------------------------------------------------------------------
DefaultOrder == <<"MANAGER", "SANDWICH", "BARISTA", "WAITER">>

\* line 111 and Orchestrator.__init__: scheduler_order or the default
Orchestrator_init ==
    /\ orch_pc = "call"
    /\ scheduler_order' = IF order_arg = <<>> \/ order_arg[1] = <<>>
                          THEN DefaultOrder ELSE order_arg[1]
    /\ orch_pc' = "create"
    /\ UNCHANGED <<order_arg, persist, schedulers, sched_i, all_assignments,
                   orch_error, made, validated, built, week_shift_ids,
                   initial_rows, stored>>
    /\ UNCHANGED <<engine, pure>>

\* the schedulers created role by role in a fixed order
CreateSchedulers_FixedOrder ==
    /\ orch_pc = "create"
    /\ schedulers' = SelectSeq(DefaultOrder,
                         LAMBDA role : role \in Range(scheduler_order))
    /\ sched_i' = 1
    /\ all_assignments' = <<>>
    /\ orch_pc' = "run"
    /\ UNCHANGED <<order_arg, persist, scheduler_order, orch_error, made,
                   validated, built, week_shift_ids, initial_rows, stored>>
    /\ UNCHANGED <<engine, pure>>

\* lines 57-66: one scheduler per known role of scheduler_order
CreateSchedulers ==
    /\ orch_pc = "create"
    /\ schedulers' = SelectSeq(scheduler_order,
                         LAMBDA role : role \in {"MANAGER", "SANDWICH", "BARISTA", "WAITER"})
    /\ sched_i' = 1
    /\ all_assignments' = <<>>
    /\ orch_pc' = "run"
    /\ UNCHANGED <<order_arg, persist, scheduler_order, orch_error, made,
                   validated, built, week_shift_ids, initial_rows, stored>>
    /\ UNCHANGED <<engine, pure>>

\* the run loop with an except clause that does not re-raise
RunScheduler_Swallows ==
    /\ orch_pc = "run"
    /\ sched_i <= Len(schedulers)
    /\ \E out \in make_schedule(schedulers[sched_i]) :
        /\ made' = Append(made, out)
        /\ all_assignments' = all_assignments \o out.assignments
        /\ sched_i' = sched_i + 1
        /\ UNCHANGED <<orch_pc, orch_error>>
    /\ UNCHANGED <<order_arg, persist, scheduler_order, schedulers, validated,
                   built, week_shift_ids, initial_rows, stored>>
    /\ UNCHANGED <<engine, pure>>

\* lines 70-80: one iteration of the run loop
RunScheduler ==
    /\ orch_pc = "run"
    /\ sched_i <= Len(schedulers)
    /\ \E out \in make_schedule(schedulers[sched_i]) :
        /\ made' = Append(made, out)
        /\ IF out.raised
           THEN /\ orch_error' = out.error
                /\ orch_pc' = "raised"
                /\ UNCHANGED <<all_assignments, sched_i>>
           ELSE /\ all_assignments' = all_assignments \o out.assignments
                /\ sched_i' = sched_i + 1
                /\ UNCHANGED <<orch_pc, orch_error>>
    /\ UNCHANGED <<order_arg, persist, scheduler_order, schedulers, validated,
                   built, week_shift_ids, initial_rows, stored>>
    /\ UNCHANGED <<engine, pure>>

\* lines 83-88: global validation, then the return of build_schedule
Validate ==
    /\ orch_pc = "run"
    /\ sched_i > Len(schedulers)
    /\ validated' = Append(validated, all_assignments)
    /\ LET rule == validate_assignment_constraints(all_assignments, employees_df, cfg)
       IN  IF rule # ""
           THEN /\ orch_error' = [kind |-> "ValueError", from |-> "validation",
                                  reason |-> rule]
                /\ orch_pc' = "raised"
                /\ UNCHANGED built
           ELSE /\ built' = <<all_assignments>>
                /\ orch_pc' = "built"
                /\ UNCHANGED orch_error
    /\ UNCHANGED <<order_arg, persist, scheduler_order, schedulers, sched_i,
                   all_assignments, made, week_shift_ids, initial_rows, stored>>
    /\ UNCHANGED <<engine, pure>>

\* lines 114-124: replace the week's stored assignments when persist is set
PersistWeek ==
    /\ orch_pc = "built"
    /\ stored' = IF persist
                 THEN bulk_create(delete_by_week(stored, week_shift_ids), built[1])
                 ELSE stored
    /\ orch_pc' = "done"
    /\ UNCHANGED <<order_arg, persist, scheduler_order, schedulers, sched_i,
                   all_assignments, orch_error, made, validated, built,
                   week_shift_ids, initial_rows>>
    /\ UNCHANGED <<engine, pure>>

\* scheduler_order arguments: None, the empty list, and lists of role names
OrderArgs ==
    { <<>>, <<<<>>>>, <<<<"BARISTA", "MANAGER">>>>, <<<<"CHEF", "BARISTA">>>>,
      <<<<"BARISTA", "BARISTA">>>>, <<<<"WAITER", "SANDWICH", "manager">>>> }

\* assignments tables: empty, rows of the week's shift 11, and a row of a
\* shift of another week
RowTables ==
    { <<>>,
      <<Assignment(11, 3, 1, Window(14, 30), "BARISTA")>>,
      <<Assignment(11, 1, 1, Window(14, 30), "MANAGER"),
        Assignment(91, 3, 8, Window(14, 30), "BARISTA")>> }

OrchConfigs ==
    { MkCfg(1, 1, NoMap, {"Saturday", "Sunday"}, FALSE, 32, pol, <<>>, NoMap, NoMap) :
        pol \in PolicyChoices }

InitOrch ==
    /\ employees_df = OrchEmployees
    /\ shifts_df = {[shift_id |-> 11, date |-> 1]}
    /\ cfg \in OrchConfigs
    /\ EngineStart
    /\ order_arg \in OrderArgs
    /\ persist \in BOOLEAN
    /\ scheduler_order = <<>>
    /\ schedulers = <<>>
    /\ sched_i = 0
    /\ all_assignments = <<>>
    /\ orch_pc = "call"
    /\ orch_error = NoOrchError
    /\ made = <<>>
    /\ validated = <<>>
    /\ built = <<>>
    /\ week_shift_ids \in {{}, {11}}
    /\ initial_rows \in RowTables
    /\ stored = initial_rows
    /\ call = NoCall

NextOrch ==
    \/ Orchestrator_init
    \/ CreateSchedulers
    \/ RunScheduler
    \/ Validate
    \/ PersistWeek

SpecOrch == InitOrch /\ [][NextOrch]_vars

\* ------------------------------------------------------------------------
\* Calls of the stateless helpers
\* ------------------------------------------------------------------------
\* no run of the engine or of the orchestrator is under way
Quiet ==
    /\ employees_df = <<>>
    /\ shifts_df = {}
    /\ cfg = MkCfg(1, 1, NoMap, {"Saturday", "Sunday"}, FALSE, 32, NoMap, <<>>, NoMap, NoMap)
    /\ EngineStart
    /\ OrchIdle

\* the dates of a whole week, Monday 1 to Sunday 7
WeekDates == 1..7

RequirementCalls(fn) ==
    { [fn |-> fn, done |-> FALSE, date |-> d, cfg |-> c] :
        d \in WeekDates, c \in Configs }

\* engine_baseline.build_requirements_for_day(date_str, cfg)
Call_build_requirements_for_day ==
    /\ call.fn = "build_requirements_for_day"
    /\ ~call.done
    /\ call' = [fn |-> call.fn, done |-> TRUE, date |-> call.date, cfg |-> call.cfg,
                result |-> build_requirements_for_day(call.date, call.cfg)]
    /\ UNCHANGED <<engine, orch>>

\* services.requirements.build_requirements_for_day(date_str, cfg)
Call_services_build_requirements_for_day ==
    /\ call.fn = "services.build_requirements_for_day"
    /\ ~call.done
    /\ call' = [fn |-> call.fn, done |-> TRUE, date |-> call.date, cfg |-> call.cfg,
                result |-> services_build_requirements_for_day(call.date, call.cfg)]
    /\ UNCHANGED <<engine, orch>>

\* scheduler/config.py.  The numbers of a configuration file are written in
\* halves here (3 is 1.5), so that int() has something to truncate; the
\* loaded counts are then even numbers of halves.
int_(v) == IF v >= 0 THEN 2 * (v \div 2) ELSE -(2 * ((-v) \div 2))

\* {k.upper(): int(v) for k, v in role_map.items()}
RECURSIVE UpperInt(_)
UpperInt(role_map) ==
    IF role_map = <<>> THEN <<>>
    ELSE LET n == Len(role_map)
         IN  Put(UpperInt(SubSeq(role_map, 1, n - 1)),
                 Upper(role_map[n].key), int_(role_map[n].val))

\* a _validate_config without the loop over the overrides
_validate_config_SkipsOverrides(c) ==
    /\ c.default_shift.duration_hours > 0
    /\ c.default_shift.start < c.default_shift.end
    /\ \A i \in 1..Len(c.default_requirements) : c.default_requirements[i].val >= 0
    /\ c.hours_caps.max_hours_per_week_per_employee > 0
    /\ \A r \in DOMAIN c.hours_policy :
           c.hours_policy[r][1].target_min <= c.hours_policy[r][1].target_max

\* _validate_config(cfg): TRUE when no ValueError is raised
_validate_config(c) ==
    /\ c.default_shift.duration_hours > 0
    /\ c.default_shift.start < c.default_shift.end
    /\ \A i \in 1..Len(c.default_requirements) : c.default_requirements[i].val >= 0
    /\ \A d \in DOMAIN c.overrides :
           \A i \in 1..Len(c.overrides[d]) : c.overrides[d][i].val >= 0
    /\ c.hours_caps.max_hours_per_week_per_employee > 0
    /\ \A r \in DOMAIN c.hours_policy :
           c.hours_policy[r][1].target_min <= c.hours_policy[r][1].target_max

\* load_config(path), from the parsed file on
load_config(raw) ==
    LET given == UpperInt(raw.default_requirements)
        c == [MkCfg(0, 0, NoMap, {"Saturday", "Sunday"}, FALSE, 80, NoMap, <<>>, NoMap, NoMap)
                EXCEPT !.default_shift.duration_hours = int_(raw.duration_hours),
                       !.default_requirements =
                           IF given # <<>> THEN given
                           ELSE <<[key |-> "MANAGER", val |-> 2], [key |-> "BARISTA", val |-> 4],
                                  [key |-> "WAITER", val |-> 2], [key |-> "SANDWICH", val |-> 2]>>,
                       !.overrides = [d \in DOMAIN raw.overrides |-> UpperInt(raw.overrides[d])]]
    IN  [raised |-> ~_validate_config(c), cfg |-> c]

\* counts a file can give, in halves: -1, -0.5, 0, 0.5, 1.5, 2
RawCounts == {-2, -1, 0, 1, 3, 4}

RawRequirements ==
    {<<>>}
    \cup { <<[key |-> "barista", val |-> v]>> : v \in RawCounts }
    \cup { <<[key |-> "MANAGER", val |-> v], [key |-> "BARISTA", val |-> w]>> :
             v \in RawCounts, w \in RawCounts }

RawOverrides ==
    {NoMap} \cup { [d \in {5} |-> <<[key |-> k, val |-> v]>>] :
                     k \in {"barista", "CHEF"}, v \in RawCounts }

RawConfigs ==
    { [default_requirements |-> dr, overrides |-> ov, duration_hours |-> du] :
        dr \in RawRequirements, ov \in RawOverrides, du \in {0, 16} }

LoadCalls ==
    { [fn |-> "load_config", done |-> FALSE, raw |-> r, date |-> d] :
        r \in RawConfigs, d \in Dates }

\* cfg = load_config(path), then build_requirements_for_day(date_str, cfg)
Call_load_config ==
    /\ call.fn = "load_config"
    /\ ~call.done
    /\ LET loaded == load_config(call.raw)
       IN  call' = [fn |-> call.fn, done |-> TRUE, raw |-> call.raw, date |-> call.date,
                    result |-> IF loaded.raised THEN [raised |-> TRUE, req |-> <<>>]
                               ELSE services_build_requirements_for_day(call.date, loaded.cfg)]
    /\ UNCHANGED <<engine, orch>>

\* scheduler/constraints.py: has_overlap, within_cafe_hours.  A row of an
\* assignments frame carries ISO strings with the zone's offset.
\* the most rows of an assignments frame
MaxRows == 2

Row(shift, emp, d, w) ==
    [shift_id |-> shift, emp_id |-> emp,
     start_time |-> to_iso_with_tz([date |-> d, min |-> w.start]),
     end_time |-> to_iso_with_tz([date |-> d, min |-> w.end])]

\* start_time.dt.tz_convert(None).dt.date: the date on the UTC time line
UtcDate(iso) == ToUtc(iso) \div 48

\* has_overlap(assignments_df): rows grouped by employee and date, each
\* group walked in start order comparing a row's start with the end of
\* the row before it
has_overlap(df) ==
    LET n == Len(df)
        date(i) == UtcDate(df[i].start_time)
        grouped(i, j) == df[i].emp_id = df[j].emp_id /\ date(i) = date(j)
        before(i, j) ==
            \/ ToUtc(df[i].start_time) < ToUtc(df[j].start_time)
            \/ ToUtc(df[i].start_time) = ToUtc(df[j].start_time) /\ i < j
        follows(i, j) ==
            /\ grouped(i, j) /\ before(i, j)
            /\ ~\E k \in 1..n : grouped(i, k) /\ before(i, k) /\ before(k, j)
    IN  \E i \in 1..n, j \in 1..n :
            follows(i, j) /\ ToUtc(df[j].start_time) < ToUtc(df[i].end_time)

OverlapRows ==
    { Row(1, e, d, w) : e \in {1001, 1002}, d \in {1, 2},
                        w \in {Window(14, 30), Window(28, 30), Window(14, 22), Window(22, 30)} }

OverlapCalls ==
    { [fn |-> "has_overlap", done |-> FALSE, df |-> l] : l \in ListsUpTo(OverlapRows, MaxRows) }

Call_has_overlap ==
    /\ call.fn = "has_overlap"
    /\ ~call.done
    /\ call' = [fn |-> call.fn, done |-> TRUE, df |-> call.df, result |-> has_overlap(call.df)]
    /\ UNCHANGED <<engine, orch>>

\* merged schedules handed to the validation: rows of any employee, in any
\* role, 07:00-15:00, 06:00-15:00, 07:00-15:30 or 07:00-17:00 on Monday
MergedRows ==
    { Assignment(11, e.employee_id, 1, w, role) :
        e \in {x \in Range(OrchEmployees) : x.primary_role # "WAITER"},
        role \in {"MANAGER", "SANDWICH", "BARISTA"},
        w \in {Window(14, 30), Window(12, 30), Window(14, 31), Window(14, 34)} }

ValidationCalls ==
    { [fn |-> "validate_assignment_constraints", done |-> FALSE, assignments |-> l, cfg |-> c] :
        l \in ListsUpTo(MergedRows, MaxRows), c \in OrchConfigs }

\* validate_assignment_constraints(all_assignments, employees, cfg)
Call_validate_assignment_constraints ==
    /\ call.fn = "validate_assignment_constraints"
    /\ ~call.done
    /\ call' = [fn |-> call.fn, done |-> TRUE, assignments |-> call.assignments,
                cfg |-> call.cfg,
                result |-> validate_assignment_constraints(call.assignments,
                                                           OrchEmployees, call.cfg)]
    /\ UNCHANGED <<engine, orch>>

\* an "HH:MM" argument, split at the colon into hour and minute
HM(h, m) == [h |-> h, m |-> m]

\* dt.hour and dt.minute of a time after tz_convert(None), that is, read
\* on the UTC time line
UtcHour(iso) == (ToUtc(iso) % 48) \div 2
UtcMinute(iso) == (ToUtc(iso) % 2) * 30

\* within_cafe_hours(assignments_df, start_hm, end_hm)
within_cafe_hours(df, start_hm, end_hm) ==
    \A i \in 1..Len(df) :
        /\ UtcHour(df[i].start_time) >= start_hm.h
        /\ UtcMinute(df[i].start_time) >= start_hm.m
        /\ UtcHour(df[i].end_time) <= end_hm.h
        /\ UtcMinute(df[i].end_time) = 0

\* rows 07:00-15:00, 06:00-15:00, 07:00-15:30, 07:00-17:00, 08:00-15:00
HoursRows ==
    { Row(1, 1001, 1, w) :
        w \in {Window(14, 30), Window(12, 30), Window(14, 31), Window(14, 34), Window(16, 30)} }

HoursCalls ==
    { [fn |-> "within_cafe_hours", done |-> FALSE, df |-> l, start_hm |-> o, end_hm |-> c] :
        l \in ListsUpTo(HoursRows, MaxRows), o \in {HM(7, 0), HM(7, 30)}, c \in {HM(15, 0)} }

Call_within_cafe_hours ==
    /\ call.fn = "within_cafe_hours"
    /\ ~call.done
    /\ call' = [fn |-> call.fn, done |-> TRUE, df |-> call.df, start_hm |-> call.start_hm,
                end_hm |-> call.end_hm,
                result |-> within_cafe_hours(call.df, call.start_hm, call.end_hm)]
    /\ UNCHANGED <<engine, orch>>

\* scheduler/validator.py: validate_assignments.  The result is the
\* exception the call ends with.
\* times are parsed with their offset kept: dt.hour is the local hour
LocalHour(iso) == iso.min \div 2
LocalMinute(iso) == (iso.min % 2) * 30

\* a validate_assignments that checks the café hours before the references
validate_assignments_HoursFirst(employees, shifts, df) ==
    LET n == Len(df)
        role(i) == Upper((CHOOSE e \in Range(employees) : e.employee_id = df[i].emp_id).primary_role)
        known(i) == df[i].emp_id \in {e.employee_id : e \in Range(employees)}
        non_sandwich == {i \in 1..n : ~known(i) \/ role(i) # "SANDWICH"}
    IN  IF \E i \in non_sandwich : LocalHour(df[i].start_time) < 7
        THEN [exc |-> "ValueError", msg |-> "Non-SANDWICH shifts start before café hours"]
        ELSE IF \E i \in 1..n : ~known(i)
        THEN [exc |-> "ValueError", msg |-> "Assignments reference unknown employee ids"]
        ELSE IF \E i \in 1..n : df[i].shift_id \notin {sh.shift_id : sh \in shifts}
        THEN [exc |-> "ValueError", msg |-> "Assignments reference unknown shift ids"]
        ELSE [exc |-> "NameError", msg |-> "per_role_caps"]

\* validate_assignments(employees_df, shifts_df, assignments_df, start_hm, end_hm)
validate_assignments(employees, shifts, df) ==
    LET n == Len(df)
        emp_ids == {e.employee_id : e \in Range(employees)}
        shift_ids == {sh.shift_id : sh \in shifts}
        role(i) == Upper((CHOOSE e \in Range(employees) : e.employee_id = df[i].emp_id).primary_role)
        non_sandwich == {i \in 1..n : role(i) # "SANDWICH"}
        sandwich == {i \in 1..n : role(i) = "SANDWICH"}
    IN  IF ~({df[i].emp_id : i \in 1..n} \subseteq emp_ids)
        THEN [exc |-> "ValueError", msg |-> "Assignments reference unknown employee ids"]
        ELSE IF ~({df[i].shift_id : i \in 1..n} \subseteq shift_ids)
        THEN [exc |-> "ValueError", msg |-> "Assignments reference unknown shift ids"]
        ELSE IF \E i \in non_sandwich : LocalHour(df[i].start_time) < 7
        THEN [exc |-> "ValueError", msg |-> "Non-SANDWICH shifts start before café hours"]
        ELSE IF \E i \in non_sandwich : LocalHour(df[i].end_time) > 15
        THEN [exc |-> "ValueError", msg |-> "Non-SANDWICH shifts end after café hours"]
        ELSE IF \E i \in non_sandwich : LocalMinute(df[i].end_time) # 0
        THEN [exc |-> "ValueError", msg |-> "Non-SANDWICH shifts don't end on the hour"]
        ELSE IF \E i \in sandwich : LocalHour(df[i].end_time) > 15
        THEN [exc |-> "ValueError", msg |-> "SANDWICH shifts end after café closing"]
        ELSE IF has_overlap(df)
        THEN [exc |-> "ValueError", msg |-> "Overlapping assignments detected"]
        ELSE [exc |-> "NameError", msg |-> "per_role_caps"]

ValidatorEmployees == <<Employee(1, "BARISTA", 1), Employee(2, "SANDWICH", 1)>>

ValidatorShifts == {[shift_id |-> 1, date |-> 1]}

\* rows of shift 1 or an unknown shift 2, of employee 1, 2 or an unknown
\* 999, 07:00-15:00, 06:00-15:00 or 07:00-15:30
ValidatorRows ==
    { Row(sh, e, 1, w) : sh \in {1, 2}, e \in {1, 2, 999},
                         w \in {Window(14, 30), Window(12, 30), Window(14, 31)} }

ValidatorCalls ==
    { [fn |-> "validate_assignments", done |-> FALSE, df |-> l] :
        l \in ListsUpTo(ValidatorRows, MaxRows) }

Call_validate_assignments ==
    /\ call.fn = "validate_assignments"
    /\ ~call.done
    /\ call' = [fn |-> call.fn, done |-> TRUE, df |-> call.df,
                result |-> validate_assignments(ValidatorEmployees, ValidatorShifts, call.df)]
    /\ UNCHANGED <<engine, orch>>

\* scheduler/services/scoring.py: calculate_fairness_penalty.  Hours are in
\* half-hours and the rate in quarters, so a penalty is in eighths.
\* the most employees of a cohort
MaxCohort == 3

MinOf(S) == CHOOSE x \in S : \A y \in S : x <= y

\* a calculate_fairness_penalty relative to the cohort's median
calculate_fairness_penalty_AboveMedian(emp_id, current_hours, cohort_hours, penalty_per_std) ==
    IF Cardinality(DOMAIN cohort_hours) <= 1 THEN 0
    ELSE IF 2 * current_hours <= Median2(cohort_hours) THEN 0
    ELSE penalty_per_std * (2 * current_hours - Median2(cohort_hours))

\* calculate_fairness_penalty(emp_id, current_hours, cohort_hours, penalty_per_std)
calculate_fairness_penalty(emp_id, current_hours, cohort_hours, penalty_per_std) ==
    IF Cardinality(DOMAIN cohort_hours) <= 1 THEN 0
    ELSE LET min_hours == MinOf({cohort_hours[i] : i \in DOMAIN cohort_hours})
         IN  IF current_hours <= min_hours THEN 0
             ELSE penalty_per_std * (current_hours - min_hours)

\* cohorts whose members have worked 10, 20 or 30 hours; rates 0.25 and 0.5
FairnessCalls ==
    { [fn |-> "calculate_fairness_penalty", done |-> FALSE, emp_id |-> e,
       current_hours |-> h, cohort_hours |-> ch, penalty_per_std |-> r] :
        e \in 1..MaxCohort, h \in {20, 40, 60}, r \in {1, 2},
        ch \in UNION {[1..n -> {20, 40, 60}] : n \in 1..MaxCohort} }

Call_calculate_fairness_penalty ==
    /\ call.fn = "calculate_fairness_penalty"
    /\ ~call.done
    /\ call' = [call EXCEPT !.done = TRUE] @@
               [result |-> calculate_fairness_penalty(call.emp_id, call.current_hours,
                                                      call.cohort_hours, call.penalty_per_std)]
    /\ UNCHANGED <<engine, orch>>

\* scheduler/engine_baseline.py, lines 122-190: the window of a slot.
\* role_time_windows with none to three staggered windows, with or without
\* a weekday window
WindowConfigs ==
    { MkCfg(1, 1, NoMap, {"Saturday", "Sunday"}, FALSE, 32, NoMap, <<>>,
            [r \in {"BARISTA", "WAITER"} |->
                [weekday |-> wd, weekend |-> <<>>,
                 weekend_staggered |->
                     SubSeq(<<Window(14, 22), Window(22, 30), Window(16, 24)>>, 1, n)]],
            NoMap) : n \in 0..3, wd \in {<<>>, <<Window(14, 18)>>} }

WindowCalls ==
    { [fn |-> "slot_window", done |-> FALSE, cfg |-> c, role |-> r, is_busy_day |-> busy,
       needed |-> n, slot |-> i] :
        c \in WindowConfigs, r \in {"BARISTA", "WAITER"}, busy \in BOOLEAN,
        n \in 1..(MaxReq + 1), i \in 0..MaxReq }

\* lines 122-190 for slot number call.slot of call.needed
Call_slot_window ==
    /\ call.fn = "slot_window"
    /\ ~call.done
    /\ call.slot < call.needed
    /\ call' = [call EXCEPT !.done = TRUE] @@
               [result |-> SlotWindow(call.cfg, call.role, call.is_busy_day,
                                      call.needed, call.slot)]
    /\ UNCHANGED <<engine, orch>>

InitPure ==
    /\ Quiet
    /\ \/ call \in RequirementCalls("build_requirements_for_day")
       \/ call \in RequirementCalls("services.build_requirements_for_day")
       \/ call \in LoadCalls
       \/ call \in OverlapCalls
       \/ call \in ValidationCalls
       \/ call \in HoursCalls
       \/ call \in ValidatorCalls
       \/ call \in FairnessCalls
       \/ call \in WindowCalls

NextPure ==
    \/ Call_build_requirements_for_day
    \/ Call_services_build_requirements_for_day
    \/ Call_load_config
    \/ Call_has_overlap
    \/ Call_validate_assignment_constraints
    \/ Call_within_cafe_hours
    \/ Call_validate_assignments
    \/ Call_calculate_fairness_penalty
    \/ Call_slot_window

SpecPure == InitPure /\ [][NextPure]_vars

\* ------------------------------------------------------------------------
\* Properties of greedy_schedule
\* ------------------------------------------------------------------------
\* the employee row of an id
EmployeeOf(id) == CHOOSE r \in Range(employees_df) : r.employee_id = id

\* local date and duration of an assignment
DateOf(a) == a.start_time.date
DurationOf(a) == ToUtc(a.end_time) - ToUtc(a.start_time)

\* sum of the durations of the assignments held by an employee
HoursHeld(id) ==
    SumSeq([i \in 1..Len(assignments) |->
               IF assignments[i].emp_id = id THEN DurationOf(assignments[i]) ELSE 0])

\* number of assignments of a role on a date
CountOn(d, role) ==
    Cardinality({i \in 1..Len(assignments) :
                    DateOf(assignments[i]) = d /\ assignments[i].role = role})

ScheduledDates == {s.date : s \in shifts_df}

\* C1: no employee holds two assignments on one date, and no employee of
\* assigned_today is in the candidate pool of a slot of that day.
C1_OnePerDay ==
    /\ \A i, j \in 1..Len(assignments) :
          (i # j /\ assignments[i].emp_id = assignments[j].emp_id)
              => DateOf(assignments[i]) # DateOf(assignments[j])
    /\ (pc = "slot" /\ SlotsRemain)
          => \A r \in Range(CurPool) : r.employee_id \notin assigned_today

\* a returned schedule in which a day has two assignments and an employee
\* works on two days
C1_Witness ==
    /\ pc = "returned"
    /\ \E i, j \in 1..Len(assignments) :
          /\ i # j
          /\ DateOf(assignments[i]) = DateOf(assignments[j])
          /\ assignments[i].role = assignments[j].role
    /\ \E i, j \in 1..Len(assignments) :
          /\ i # j
          /\ assignments[i].emp_id = assignments[j].emp_id

\* C2: the hours an employee holds never exceed the hard cap of the
\* employee's role, nor the global hard cap when one is set.
C2_WithinHardCap ==
    \A id \in EmployeeIds :
        /\ HoursHeld(id) <= RoleCap(cfg, Upper(EmployeeOf(id).primary_role))
        /\ cfg.global_hard_cap # <<>> => HoursHeld(id) <= cfg.global_hard_cap[1]

\* an employee committed exactly up to a cap, and a later slot that had to
\* leave that employee out
C2_Witness ==
    /\ pc = "slot" /\ SlotsRemain
    /\ \E r \in Range(CurCandidates) :
          /\ HoursHeld(r.employee_id) > 0
          /\ r.employee_id \notin assigned_today
          /\ \/ HoursHeld(r.employee_id) = RoleCap(cfg, CurRole)
             \/ /\ cfg.global_hard_cap # <<>>
                /\ HoursHeld(r.employee_id) = cfg.global_hard_cap[1]
          /\ r \notin Range(CurPool)

\* the requirement the configuration resolves for a date
Requirement(d) == build_requirements_for_day(d, cfg).req

\* C3: in a returned schedule every role with a positive requirement on a
\* scheduled date has exactly that many assignments there, or at least
\* min_required on a busy day whose weekend fallback is enabled.
C3_CoverageMet ==
    pc = "returned" =>
        \A d \in ScheduledDates : \A k \in 1..Len(Requirement(d)) :
            LET role == Requirement(d)[k].key
                needed == Requirement(d)[k].val
            IN  needed > 0 =>
                  \/ CountOn(d, role) = needed
                  \/ /\ DayName(d) \in cfg.busy_days
                     /\ role \in DOMAIN cfg.weekend_fallback
                     /\ cfg.weekend_fallback[role].enabled
                     /\ CountOn(d, role) >= cfg.weekend_fallback[role].min_required

\* a returned schedule with a date on which a role needs two and has two
C3_Witness ==
    /\ pc = "returned"
    /\ \E d \in ScheduledDates : \E k \in 1..Len(Requirement(d)) :
          /\ Requirement(d)[k].val = 2
          /\ CountOn(d, Requirement(d)[k].key) = 2


\* role strings on which the eligibility matrix is evaluated
RoleStrings == {"MANAGER", "BARISTA", "WAITER", "SANDWICH", "CHEF",
                "barista", "manager"}

\* C4 as stated: every assignment's role is the primary role string of its
\* employee, and is_role_eligible(p, r) holds exactly when p = r and r is
\* one of the four roles.
C4_AsStated ==
    /\ \A i \in 1..Len(assignments) :
          assignments[i].role = EmployeeOf(assignments[i].emp_id).primary_role
    /\ pc = "slot" =>
          \A e \in Range(employees_df) : \A r \in RoleStrings :
              is_role_eligible(e.primary_role, r)
                  <=> (e.primary_role = r /\ r \in ROLES)

\* C4, amended: roles are compared in upper case.  Every assignment's role
\* is the upper-cased primary role of its employee and passes
\* is_role_eligible, and is_role_eligible(p, r) holds exactly when upper(p) =
\* upper(r) and upper(r) is one of the four roles.
C4_PrimaryRoleOnly ==
    /\ \A i \in 1..Len(assignments) :
          LET p == EmployeeOf(assignments[i].emp_id).primary_role
          IN  /\ assignments[i].role = Upper(p)
              /\ is_role_eligible(p, assignments[i].role)
    /\ pc = "slot" =>
          \A e \in Range(employees_df) : \A r \in RoleStrings :
              is_role_eligible(e.primary_role, r)
                  <=> (Upper(e.primary_role) = Upper(r) /\ Upper(r) \in ROLES)

\* a returned schedule with an assignment of an employee whose primary role
\* is written in lower case, next to an employee of another role
C4_Witness ==
    /\ pc = "returned"
    /\ \E i \in 1..Len(assignments) :
          /\ EmployeeOf(assignments[i].emp_id).primary_role = "barista"
          /\ assignments[i].role = "BARISTA"
    /\ \E e \in Range(employees_df) : Upper(e.primary_role) # "BARISTA"

StatedRequirement(d) ==
    IF d \in DOMAIN cfg.overrides
    THEN Overlay(cfg.default_requirements, cfg.overrides[d])
    ELSE cfg.default_requirements

\* (date, role) pairs with a positive requirement and no employee of the role
Unstaffed ==
    {<<d, role>> \in ScheduledDates \X RoleStrings :
        /\ Get(StatedRequirement(d), role, 0) > 0
        /\ RoleCandidates(employees_df, role) = <<>>}

RunOver == pc \in {"returned", "raised"}

\* C6: when some scheduled date requires a role that no employee has, the
\* run returns no schedule and ends with a coverage error; the coverage
\* error raised at such a date and role is the one for a role without
\* employees and names it; no coverage error is raised for a role whose
\* requirement on the date is 0.
C6_UnstaffedRoleRaises ==
    /\ (RunOver /\ Unstaffed # {}) => pc = "raised" /\ error.kind = "RuntimeError"
    /\ (pc = "raised" /\ error.kind = "RuntimeError") =>
          /\ Get(StatedRequirement(error.day), error.role, 0) > 0
          /\ <<error.day, error.role>> \in Unstaffed =>
                error = CoverageError(error.day, error.role, "no eligible employees")

\* (date, role) pairs that require more employees than the role has
Understaffed ==
    {<<d, role>> \in ScheduledDates \X RoleStrings :
        /\ Len(RoleCandidates(employees_df, role)) > 0
        /\ Get(StatedRequirement(d), role, 0)
               > Len(RoleCandidates(employees_df, role))}

\* C7: when a role's requirement on a day exceeds the employees of the role,
\* the run ends with a coverage error naming the date and the role; it does
\* not return, and nobody is assigned twice on a day.
C7_UnderstaffedDayRaises ==
    (RunOver /\ Understaffed # {} /\ Unstaffed = {}) =>
        /\ pc = "raised"
        /\ error.kind = "RuntimeError"
        /\ <<error.day, error.role>> \in Understaffed


\* hours of the current slot's window
CurSlotHours ==
    LET b == local_day_bounds(CurDay, CurWindow.start, CurWindow.end)
    IN  Elapsed(b[1], b[2])

InCurPool(r) == r \in Range(CurPool)

\* C8 as stated, for the pool of the slot loop: an employee is left out
\* exactly when the role differs, or the employee is assigned today, or the
\* hours with the slot exceed the role hard cap (the global hard cap when
\* the role has none) or the global hard cap.
C8_AsStated ==
    (pc = "slot" /\ SlotsRemain) =>
        \A r \in Range(employees_df) :
            LET post == weekly_hours[r.employee_id] + CurSlotHours
                has_policy == /\ CurRole \in DOMAIN cfg.hours_policy
                              /\ cfg.hours_policy[CurRole] # <<>>
                has_global == cfg.global_hard_cap # <<>>
            IN  ~InCurPool(r) <=>
                  \/ Upper(r.primary_role) # CurRole
                  \/ r.employee_id \in assigned_today
                  \/ has_policy /\ post > cfg.hours_policy[CurRole][1].hard_cap
                  \/ has_global /\ post > cfg.global_hard_cap[1]

\* global caps handed to can_assign_employee
GlobalCapArgs == {16, 32}

\* C8, amended.  In the slot loop of greedy_schedule an employee is left out
\* of the pool exactly when the upper-cased primary role differs from the
\* slot's role, or the slot's role is not one of the four roles, or the
\* employee is assigned today, or the hours with the slot exceed the role
\* hard cap (hours_caps.max_hours_per_week_per_employee when the role has no
\* policy), or a global hard cap is set and exceeded.  can_assign_employee
\* refuses exactly when the roles differ, or the employee is assigned today,
\* or the hours with the slot exceed the role hard cap (its global_hard_cap
\* argument when the role has none) or that argument.  Landing on a cap is
\* allowed; one hour below the cap with a two-hour slot is left out.
C8_PoolExclusion ==
    (pc = "slot" /\ SlotsRemain) =>
        \A r \in Range(employees_df) :
            LET post == weekly_hours[r.employee_id] + CurSlotHours
            IN  /\ ~InCurPool(r) <=>
                      \/ Upper(r.primary_role) # CurRole
                      \/ CurRole \notin ROLES
                      \/ r.employee_id \in assigned_today
                      \/ post > RoleCap(cfg, CurRole)
                      \/ cfg.global_hard_cap # <<>> /\ post > cfg.global_hard_cap[1]
                /\ \A g \in GlobalCapArgs :
                      ~can_assign_employee(r, CurRole, CurSlotHours,
                                           assigned_today, weekly_hours,
                                           cfg.hours_policy, g) <=>
                          \/ Upper(r.primary_role) # Upper(CurRole)
                          \/ r.employee_id \in assigned_today
                          \/ post > PolicyCapOr(cfg.hours_policy, CurRole, g)
                          \/ post > g

\* a slot of two hours with its role's hard cap of three hours: one employee
\* of the role stands one hour below the cap and is left out, in the pool
\* of the engine and by can_assign_employee
C8_Witness ==
    /\ pc = "slot" /\ SlotsRemain
    /\ CurSlotHours = 4
    /\ \E r \in Range(CurCandidates) :
          /\ r.employee_id \notin assigned_today
          /\ weekly_hours[r.employee_id] = RoleCap(cfg, CurRole) - 2
          /\ ~InCurPool(r)
          /\ ~can_assign_employee(r, CurRole, CurSlotHours, assigned_today,
                                  weekly_hours, cfg.hours_policy, 32)

\* a slot that lands an employee exactly on the role hard cap, taken
C8_WitnessOnCap ==
    /\ pc = "slot" /\ SlotsRemain
    /\ \E r \in Range(CurPool) :
          /\ weekly_hours[r.employee_id] > 0
          /\ weekly_hours[r.employee_id] + CurSlotHours = RoleCap(cfg, CurRole)

\* ------------------------------------------------------------------------
\* Properties of build_week_schedule
\* ------------------------------------------------------------------------
SchedulerRaised == \E i \in 1..Len(made) : made[i].raised

ValidationRaised ==
    \E i \in 1..Len(validated) :
        validate_assignment_constraints(validated[i], employees_df, cfg) # ""

\* the roles whose schedulers have been run, in call order
RolesRun == [i \in 1..Len(made) |-> made[i].role]

\* the outputs of the make_schedule calls, one after another
RECURSIVE Concatenation(_)
Concatenation(outs) ==
    IF outs = <<>> THEN <<>>
    ELSE Head(outs).assignments \o Concatenation(Tail(outs))

IsPrefix(s, t) == Len(s) <= Len(t) /\ \A i \in 1..Len(s) : s[i] = t[i]

\* C9: once a role scheduler or the final validation has raised,
\* build_schedule has returned nothing, the exception that leaves
\* build_week_schedule is the one raised, and the assignments table holds
\* exactly the rows it held before the call.
C9_AllOrNothing ==
    (SchedulerRaised \/ ValidationRaised) =>
        /\ orch_pc = "raised"
        /\ built = <<>>
        /\ stored = initial_rows
        /\ IF SchedulerRaised THEN orch_error = made[Len(made)].error
           ELSE orch_error.kind = "ValueError" /\ orch_error.from = "validation"

\* a later scheduler raised after an earlier one had made assignments, in a
\* call asked to persist over a table holding rows of the week
C9_Witness ==
    /\ orch_pc = "raised"
    /\ SchedulerRaised
    /\ all_assignments # <<>>
    /\ persist
    /\ \E i \in 1..Len(stored) : stored[i].shift_id \in week_shift_ids

\* the order the caller configured: the scheduler_order argument, or the
\* default when none is given
ConfiguredOrder == IF order_arg = <<>> THEN DefaultOrder ELSE order_arg[1]

\* C10 as stated: the schedulers run in exactly the configured
\* scheduler_order, the returned list is the concatenation of their outputs,
\* and validation runs once, after all of them, on that list.
C10_AsStated ==
    /\ IsPrefix(RolesRun, ConfiguredOrder)
    /\ validated # <<>> =>
          /\ RolesRun = ConfiguredOrder
          /\ validated = <<Concatenation(made)>>
    /\ built # <<>> => built[1] = Concatenation(made) /\ validated # <<>>

\* the order that is run: the known role names of the configured order, the
\* default when the order is absent or empty
RunOrder ==
    SelectSeq(IF ConfiguredOrder = <<>> THEN DefaultOrder ELSE ConfiguredOrder,
              LAMBDA role : role \in {"MANAGER", "SANDWICH", "BARISTA", "WAITER"})

\* C10: the schedulers run one after another in the configured
\* scheduler_order without the names that are not exactly MANAGER, SANDWICH,
\* BARISTA or WAITER (an absent or empty order is the default order); the
\* returned list is the concatenation of their outputs in that order;
\* validation runs once, after the last scheduler has returned, on that list,
\* and not at all when a scheduler raised.
C10_InOrderThenValidated ==
    /\ IsPrefix(RolesRun, RunOrder)
    /\ validated # <<>> =>
          /\ RolesRun = RunOrder
          /\ ~SchedulerRaised
          /\ validated = <<Concatenation(made)>>
    /\ built # <<>> => built[1] = Concatenation(made) /\ validated # <<>>

\* build_schedule returned the BARISTA assignment followed by the MANAGER
\* assignment for the order BARISTA, MANAGER
C10_Witness ==
    /\ order_arg = <<<<"BARISTA", "MANAGER">>>>
    /\ built # <<>>
    /\ Len(built[1]) = 2
    /\ built[1][1].role = "BARISTA"
    /\ built[1][2].role = "MANAGER"

\* the stored rows of the week (get_by_week) and of the other weeks
WeekRows(rows) == SelectSeq(rows, LAMBDA a : a.shift_id \in week_shift_ids)
OtherRows(rows) == SelectSeq(rows, LAMBDA a : a.shift_id \notin week_shift_ids)

\* C11: after build_week_schedule with persist has returned, the rows stored
\* for the week are exactly the returned assignments, as many as returned,
\* whatever the table held for the week before the call, and the rows of
\* other weeks are the same as before the call.
C11_WeekReplaced ==
    (orch_pc = "done" /\ persist) =>
        /\ WeekRows(stored) = built[1]
        /\ Len(WeekRows(stored)) = Len(built[1])
        /\ OtherRows(stored) = OtherRows(initial_rows)

\* a persisting call that returned assignments over a table that held a row
\* of the week and a row of another week
C11_Witness ==
    /\ orch_pc = "done"
    /\ persist
    /\ built[1] # <<>>
    /\ WeekRows(initial_rows) # <<>>
    /\ OtherRows(initial_rows) # <<>>

\* ------------------------------------------------------------------------
\* Properties of the scoring of a slot
\* ------------------------------------------------------------------------
\* lines 266-277: the pool of the current slot after the second cap filter
SlotPool ==
    SelectSeq(CurPool, LAMBDA rr :
        weekly_hours[rr.employee_id] + CurSlotHours <= RoleCap(cfg, CurRole))

\* lines 300-302: the row selected for the current slot
SlotChosen ==
    Chosen(SlotPool, cfg, CurRole, CurDay, CurWindow, weekly_hours, fairness_by_role)

EqualSkills(a, b) ==
    /\ a.skill_coffee = b.skill_coffee
    /\ a.skill_sandwich = b.skill_sandwich
    /\ a.skill_speed = b.skill_speed
    /\ a.customer_service_rating = b.customer_service_rating

\* C12: when two employees of equal skills are both in the pool of a slot and
\* one has strictly fewer accumulated weekly hours, the one with more hours
\* is not the employee selected for the slot.
C12_FairnessMonotonic ==
    (pc = "slot" /\ SlotsRemain /\ SlotPool # <<>>) =>
        \A a \in Range(SlotPool), b \in Range(SlotPool) :
            (EqualSkills(a, b)
               /\ weekly_hours[a.employee_id] < weekly_hours[b.employee_id])
                => SlotChosen.employee_id # b.employee_id

\* ------------------------------------------------------------------------
\* Properties of the stateless helpers
\* ------------------------------------------------------------------------
\* the layers of a day's requirements: the defaults, the busy-day
\* requirements on a configured busy day, the override of the date
LayeredRequirements(date, c) ==
    LET busy_reqs == IF c.weekend_requirements = <<>> THEN <<>>
                     ELSE c.weekend_requirements[1]
        req1 == IF DayName(date) \in c.busy_days
                THEN Overlay(c.default_requirements, busy_reqs)
                ELSE c.default_requirements
    IN  IF date \in DOMAIN c.overrides THEN Overlay(req1, c.overrides[date])
        ELSE req1

\* C13: build_requirements_for_day returns, for every date, the default
\* requirements overlaid with the busy-day requirements when the weekday is a
\* configured busy day, then with the override of the date; a layer replaces
\* the counts of the roles it names and leaves the others.
C13_RequirementLayers ==
    (call.done /\ call.fn \in {"build_requirements_for_day",
                               "services.build_requirements_for_day"}) =>
        /\ ~call.result.raised
        /\ call.result.req = LayeredRequirements(call.date, call.cfg)

\* C14: for every date and every configuration that config validation
\* accepts, each role's resolved requirement is a non-negative integer (a
\* non-negative even number of halves).
C14_RequirementsNatural ==
    (call.done /\ call.fn = "load_config" /\ ~call.result.raised) =>
        \A i \in 1..Len(call.result.req) :
            /\ call.result.req[i].val >= 0
            /\ call.result.req[i].val % 2 = 0

\* a file with a fractional default and a fractional override on the date
C14_Witness ==
    /\ call.done /\ call.fn = "load_config" /\ ~call.result.raised
    /\ call.date \in DOMAIN call.raw.overrides
    /\ call.raw.overrides[call.date][1].val = -1
    /\ \E i \in 1..Len(call.raw.default_requirements) :
           call.raw.default_requirements[i].val = 3
    /\ \E i \in 1..Len(call.result.req) : call.result.req[i].val > 0

\* the Validator's overlap rule on local dates: some employee has two rows
\* on one local date with a1.start < a2.end and a2.start < a1.end
OverlapRule(df) ==
    \E i \in 1..Len(df), j \in 1..Len(df) :
        /\ i # j
        /\ df[i].emp_id = df[j].emp_id
        /\ df[i].start_time.date = df[j].start_time.date
        /\ ToUtc(df[i].start_time) < ToUtc(df[j].end_time)
        /\ ToUtc(df[j].start_time) < ToUtc(df[i].end_time)

\* C15: has_overlap returns True exactly when some employee has two
\* assignments on the same local date whose intervals intersect; so it
\* returns True for one employee holding 07:00-15:00 and 14:00-15:00 on one
\* day in the +10:00 zone.
C15_OverlapRule ==
    (call.done /\ call.fn = "has_overlap") => (call.result <=> OverlapRule(call.df))

Validated == call.done /\ call.fn = "validate_assignment_constraints"

\* the primary role of the employee of an assignment
PrimaryRoleOf(a) ==
    (CHOOSE e \in Range(OrchEmployees) : e.employee_id = a.emp_id).primary_role

\* C16: validate_assignment_constraints raises whenever a non-SANDWICH
\* assignment starts before opening, ends after closing or does not end on
\* the hour, and whenever a SANDWICH assignment ends after closing; a
\* SANDWICH assignment that only starts before opening is accepted.
C16_CafeHours ==
    Validated =>
        LET open == call.cfg.default_shift.start
            close == call.cfg.default_shift.end
            as == call.assignments
        IN  /\ (\E i \in 1..Len(as) :
                    \/ /\ PrimaryRoleOf(as[i]) # "SANDWICH"
                       /\ \/ as[i].start_time.hm < open
                          \/ as[i].end_time.hm > close
                          \/ as[i].end_time.hm % 2 # 0
                    \/ /\ PrimaryRoleOf(as[i]) = "SANDWICH"
                       /\ as[i].end_time.hm > close)
                => call.result # ""
            /\ (/\ Len(as) = 1
                /\ PrimaryRoleOf(as[1]) = "SANDWICH"
                /\ as[1].start_time.hm < open
                /\ as[1].end_time.hm <= close)
                => call.result = ""

\* C17: within_cafe_hours returns True exactly when every assignment starts
\* at or after the opening time and ends at or before the closing time on an
\* exact hour, the times read in the local zone, for every opening and
\* closing time given as HH:MM.
C17_WithinCafeHours ==
    (call.done /\ call.fn = "within_cafe_hours") =>
        (call.result <=>
            \A i \in 1..Len(call.df) :
                /\ call.df[i].start_time.min >= 2 * call.start_hm.h + call.start_hm.m \div 30
                /\ call.df[i].end_time.min <= 2 * call.end_hm.h + call.end_hm.m \div 30
                /\ call.df[i].end_time.min % 2 = 0)

\* C18: the validation the Orchestrator runs over the merged schedule raises
\* whenever some assignment's role differs from the primary role of its
\* employee.
C18_RoleMismatchRaises ==
    Validated =>
        ((\E i \in 1..Len(call.assignments) :
              call.assignments[i].role # PrimaryRoleOf(call.assignments[i]))
            => call.result # "")

\* number of the schedule's assignments of a role on a date
Staffed(as, date, role) ==
    Cardinality({i \in 1..Len(as) : as[i].start_time.date = date /\ as[i].role = role})

\* C19: the validation rejects a merged schedule whenever, for some date and
\* role with a requirement above zero, the number of assignments differs
\* from the requirement (no day of the week is relaxed by weekend fallback
\* here, the schedule being Monday's).
C19_CoverageMismatchRejected ==
    Validated =>
        LET req == services_build_requirements_for_day(1, call.cfg).req
        IN  (\E k \in 1..Len(req) :
                 /\ req[k].val > 0
                 /\ Staffed(call.assignments, 1, req[k].key) # req[k].val)
                => call.result # ""

UnknownEmployee(df) ==
    \E i \in 1..Len(df) :
        df[i].emp_id \notin {e.employee_id : e \in Range(ValidatorEmployees)}

UnknownShift(df) ==
    \E i \in 1..Len(df) : df[i].shift_id \notin {sh.shift_id : sh \in ValidatorShifts}

\* C20: validate_assignments raises a ValueError naming the employee
\* reference when some assignment's emp_id is not in the employees table, and
\* a ValueError when some shift_id is not in the shifts table; both checks
\* come before any hours, overlap, cap or coverage check.
C20_ReferencesFirst ==
    (call.done /\ call.fn = "validate_assignments") =>
        /\ UnknownEmployee(call.df) =>
               call.result = [exc |-> "ValueError",
                              msg |-> "Assignments reference unknown employee ids"]
        /\ UnknownShift(call.df) =>
               /\ call.result.exc = "ValueError"
               /\ call.result.msg \in {"Assignments reference unknown employee ids",
                                       "Assignments reference unknown shift ids"}

\* a frame with an unknown employee whose row also starts before 07:00
C20_Witness ==
    /\ call.done /\ call.fn = "validate_assignments"
    /\ \E i \in 1..Len(call.df) :
           /\ call.df[i].emp_id = 999
           /\ call.df[i].start_time.min < 14
    /\ call.result.msg = "Assignments reference unknown employee ids"

FairnessCalled ==
    /\ call.done /\ call.fn = "calculate_fairness_penalty"
    /\ Cardinality(DOMAIN call.cohort_hours) >= 2

DayStarted == pc = "role" /\ role_i = 1

\* C22: the penalty the engine subtracts when scoring a candidate is the
\* cohort rotation penalty max(0, hours(emp) - min(cohort hours)) times the
\* fairness factor (compared in eighths: Q / sqrt(V) on the engine's side).
C22_RotationPenalty ==
    DayStarted =>
        \A role \in DOMAIN fairness_by_role :
            LET hs == HoursSeries(employees_df, role, weekly_hours)
                f == fairness_by_role[role]
            IN  \A e \in DOMAIN hs :
                    LET rotation == cfg.weights.fairness_penalty_per_std_above_median
                                      * (hs[e] - MinOf({hs[i] : i \in DOMAIN hs}))
                    IN  f.q[e] * f.q[e] = rotation * rotation * f.V

\* the score of a row of the slot's pool
SlotScore(r) == score_row(r, cfg, CurRole, CurDay, CurWindow, weekly_hours, fairness_by_role)

SlotScoreGreater(a, b) ==
    ScoreGreater(SlotScore(a), SlotScore(b), FairnessV(fairness_by_role, CurRole))

\* C23: for each slot the engine selects a candidate of maximum score, and
\* among the candidates of maximum score the one with the lowest employee
\* id, whatever the order of the employee records.
C23_LowestIdOnTie ==
    (pc = "slot" /\ SlotsRemain /\ SlotPool # <<>>) =>
        \A r \in Range(SlotPool) :
            /\ ~SlotScoreGreater(r, SlotChosen)
            /\ ~SlotScoreGreater(SlotChosen, r) => SlotChosen.employee_id <= r.employee_id

\* the slot loop stands at a slot whose candidate pool is empty
Stuck == pc = "slot" /\ SlotsRemain /\ CurPool = <<>>

\* undoing some buffered assignment of the day's role (its hours given back,
\* its employee no longer assigned today) leaves another employee who can
\* take that assignment in its own window
RepairFeasible ==
    \E k \in 1..Len(backtrack_buffer) :
        LET prev == backtrack_buffer[k].assign
            w == Window(prev.start_time.min, prev.end_time.min)
            undone == [weekly_hours EXCEPT
                          ![prev.emp_id] = @ - (ToUtc(prev.end_time) - ToUtc(prev.start_time))]
        IN  \E r \in Range(CurCandidates) :
                /\ r.employee_id # prev.emp_id
                /\ eligible_mask(r, cfg, CurRole, CurDay, w,
                                 assigned_today \ {prev.emp_id}, undone)

\* C24: when a slot's pool is empty and undoing an earlier assignment of the
\* same date and role leaves another employee who can take it, the engine
\* replaces that assignment's employee, keeps its time window, and goes on to
\* fill the stuck slot instead of raising.
C24_RepairSwaps ==
    [][(Stuck /\ RepairFeasible) =>
          /\ pc' = "slot"
          /\ Len(assignments') = Len(assignments)
          /\ \E i \in 1..Len(assignments) : assignments'[i].emp_id # assignments[i].emp_id
          /\ \A i \in 1..Len(assignments) :
                 /\ assignments'[i].start_time = assignments[i].start_time
                 /\ assignments'[i].end_time = assignments[i].end_time]_vars

\* the weekend fallback is enabled for the role of the slot loop
FallbackEnabled ==
    /\ IsBusyDay
    /\ CurRole \in DOMAIN cfg.weekend_fallback
    /\ cfg.weekend_fallback[CurRole].enabled

\* C25: on a busy day, when a slot of a role cannot be filled and the
\* weekend fallback is enabled for the role, the run raises a coverage error
\* only if the slots filled for the role and day are fewer than min_required;
\* otherwise the day is accepted under-filled and the run continues.
C25_FallbackAccepts ==
    [][(Stuck /\ FallbackEnabled
          /\ slots_assigned >= cfg.weekend_fallback[CurRole].min_required)
            => pc' # "raised"]_vars

WindowCalled == call.done /\ call.fn = "slot_window"

DefaultWindow(c) == Window(c.default_shift.start, c.default_shift.end)

\* the window of a slot of a non-busy day: the weekday window, else the default
WeekdayWindow(c, role) ==
    IF RoleWindows(c, role).weekday # <<>> THEN RoleWindows(c, role).weekday[1]
    ELSE DefaultWindow(c)

\* C26 as stated: on a busy day slot i of a BARISTA or WAITER requirement gets
\* staggered window i mod count, count being the number of configured windows.
C26_AsStated ==
    WindowCalled =>
        LET st == RoleWindows(call.cfg, call.role).weekend_staggered
        IN  call.result =
              IF ~call.is_busy_day THEN WeekdayWindow(call.cfg, call.role)
              ELSE IF Len(st) >= 2 THEN st[(call.slot % Len(st)) + 1]
              ELSE DefaultWindow(call.cfg)

\* C26: on a busy day slot i of a BARISTA or WAITER requirement gets staggered
\* window i mod 2 of the first two configured windows (when at least 2 are
\* configured); with fewer than 2, every slot gets the default window; on a
\* non-busy day every slot gets the weekday window, else the default.
C26_FirstTwoWindows ==
    WindowCalled =>
        LET st == RoleWindows(call.cfg, call.role).weekend_staggered
        IN  call.result =
              IF ~call.is_busy_day THEN WeekdayWindow(call.cfg, call.role)
              ELSE IF Len(st) >= 2 THEN st[(call.slot % 2) + 1]
              ELSE DefaultWindow(call.cfg)

\* the third slot of a busy day with three staggered windows configured
C26_Witness ==
    /\ WindowCalled /\ call.is_busy_day /\ call.slot = 2
    /\ Len(RoleWindows(call.cfg, call.role).weekend_staggered) = 3
    /\ call.result = Window(14, 22)

\* the order in which the configuration has two dates processed
ProcessedBefore(d1, d2) ==
    LET busy(d) == DayName(d) \in cfg.busy_days
    IN  IF cfg.schedule_busy_days_first /\ busy(d1) # busy(d2) THEN busy(d1)
        ELSE d1 < d2

\* C27: the engine processes the days in ascending date order and, when
\* schedule_busy_days_first is set, every busy day before any other day,
\* ascending within each group; the ledger seen on a day holds the
\* assignments of the days ordered before it.
C27_DayOrder ==
    (pc # "start") =>
        /\ Range(days) = ScheduledDates
        /\ \A i, j \in 1..Len(days) : i < j => ProcessedBefore(days[i], days[j])
        /\ \A i, j \in 1..Len(assignments) :
               i < j => ~ProcessedBefore(DateOf(assignments[j]), DateOf(assignments[i]))
        /\ (pc = "slot") =>
               \A d \in ScheduledDates : ProcessedBefore(d, CurDay) =>
                   \A role \in Keys(build_requirements_for_day(d, cfg).req) :
                       CountOn(d, role) = Get(build_requirements_for_day(d, cfg).req, role, 0)

\* a Thursday slot of a run that took the busy Friday first: the ledger
\* already holds Friday's hours
C27_Witness ==
    /\ pc = "slot" /\ cfg.schedule_busy_days_first
    /\ CurDay = 4 /\ days = <<5, 4>>
    /\ \E i \in 1..Len(assignments) :
           DateOf(assignments[i]) = 5 /\ weekly_hours[assignments[i].emp_id] > 0

\* C28: every run of greedy_schedule terminates, returning a schedule or
\* raising: the slot loop, with its retry after a repair, cannot go on for ever.
C28_Terminates == <>(pc \in {"returned", "raised"})

\* a run that ended at a slot whose pool was empty, after filling others
C28_Witness ==
    /\ pc = "raised"
    /\ error.reason = "insufficient eligible staff within hour caps"
    /\ slots_assigned > 0

\* C29: at every iteration of the role and slot loops, weekly_hours[e] is
\* the sum of the durations of the assignments e holds in the list, and
\* assigned_today is the set of employees holding an assignment on the day
\* being processed.
C29_LedgerConsistent ==
    (pc \in {"role", "slot"}) =>
        /\ \A e \in EmployeeIds : weekly_hours[e] = HoursHeld(e)
        /\ assigned_today =
               {assignments[i].emp_id :
                   i \in {k \in 1..Len(assignments) : DateOf(assignments[k]) = CurDay}}

\* the second day of a run, with an employee who holds assignments of
\* both days, one of them in a short window
C29_Witness ==
    /\ pc = "slot" /\ day_i = 2
    /\ \E e \in assigned_today :
           /\ weekly_hours[e] > 0
           /\ weekly_hours[e] < 32
           /\ Cardinality({i \in 1..Len(assignments) : assignments[i].emp_id = e}) = 2

====
